---- MODULE Spec2Model ----
(***************************************************************************)
(* Income-Journal: the tax estimator of services/taxService.ts, in its two *)
(* historical versions (the multi-component formulation and the flat       *)
(* marginal formulation), and the calls made to it.                        *)
(*                                                                         *)
(* Numbers.  The code computes on IEEE doubles.  Every quantity it forms   *)
(* from a whole-krone income is a multiple of 1/10000 krone, so an amount  *)
(* is modelled exactly as a record [kr, tt]: kr whole kroner (the floor)   *)
(* and tt in 0..9999 ten-thousandths of a krone.  Rates are per mille.     *)
(* Math.round on a double and MathRound on the exact amount can differ     *)
(* only where the exact amount ends in one half (multi-component version,  *)
(* g = 788740: 226115.5); no income of Incomes is such a case.             *)
(***************************************************************************)
EXTENDS Integers, Sequences, FiniteSets

VARIABLES
    \* the estimator: the version in use and its two most recent calls
    version, calls,
    \* XML export and import: the array exported, the file, the settled import
    exportedArray, xmlFile, xmlSettled,
    \* the application and its history view
    viewVersion, salaryEntries, isLoading, error,
    selectedYear, selectedCompany, sortConfig, isImporting, importStatus,
    \* the requests awaiting their answer, the next id the server gives, and
    \* the calls of handleImportEntries made so far
    inFlight, nextId, importCalls,
    \* the tab shown, the entry being edited and the confirmation dialog
    activeTab, editingEntry, confirmationState,
    \* the calls of handleSaveEntry and the deletions confirmed so far
    saveCalls, deleteCalls

taxVars == <<version, calls>>

xmlVars == <<exportedArray, xmlFile, xmlSettled>>

appVars == <<viewVersion, salaryEntries, isLoading, error,
             selectedYear, selectedCompany, sortConfig, isImporting,
             importStatus, inFlight, nextId, importCalls>>

tabVars == <<activeTab, editingEntry, confirmationState,
             saveCalls, deleteCalls>>

vars == <<taxVars, xmlVars, appVars, tabVars>>

----------------------------------------------------------------------------
(* Bounds of the model *)

\* incomes are taken within Window kroner of every threshold of the code
Window == 1

\* and on a grid of 0, 100000, ..., MaxGrid * 100000 kroner
MaxGrid == 16

----------------------------------------------------------------------------
(* Fixed-point amounts *)

Norm(k, t) == [kr |-> k + (t \div 10000), tt |-> t % 10000]

Kr(n) == [kr |-> n, tt |-> 0]

Zero == Kr(0)

Add(a, b) == Norm(a.kr + b.kr, a.tt + b.tt)

Sub(a, b) == Norm(a.kr - b.kr, a.tt - b.tt)

\* a * (permille / 1000); exact for the amounts of the code (whole kroner,
\* or whole oere multiplied by a rate that is a whole percent)
Times(a, permille) ==
    Norm((a.kr * permille) \div 1000,
         ((a.kr * permille) % 1000) * 10 + ((a.tt * permille) \div 1000))

Less(a, b) == \/ a.kr < b.kr
              \/ a.kr = b.kr /\ a.tt < b.tt

Leq(a, b) == a = b \/ Less(a, b)

MathMin(a, b) == IF Less(b, a) THEN b ELSE a

MathMax(a, b) == IF Less(a, b) THEN b ELSE a

\* Math.round: the nearest integer, a half rounded up
MathRound(a) == IF a.tt >= 5000 THEN Kr(a.kr + 1) ELSE Kr(a.kr)

IsInteger(a) == a.tt = 0

RECURSIVE SumAmounts(_)
SumAmounts(s) == IF s = <<>> THEN Zero ELSE Add(Head(s), SumAmounts(Tail(s)))

----------------------------------------------------------------------------
(* Constants of the multi-component formulation *)

SOCIAL_SECURITY_RATE == 79

GENERAL_TAX_RATE == 220

PERSONAL_ALLOWANCE == 88250

STANDARD_DEDUCTION_RATE == 460

STANDARD_DEDUCTION_MAX == 104450

\* stands for the Infinity of the last bracket: above every income of the model
Infinity == 2147483

\* PROGRESSIVE_TAX_BRACKETS with the rate of Krok 2 mistyped (0.004 for 0.040)
PROGRESSIVE_TAX_BRACKETS_Mistyped ==
    << [limit |-> 208050,   rate |-> 0],
       [limit |-> 292850,   rate |-> 17],
       [limit |-> 670000,   rate |-> 4],
       [limit |-> 937900,   rate |-> 136],
       [limit |-> 1350000,  rate |-> 176],
       [limit |-> Infinity, rate |-> 178] >>

PROGRESSIVE_TAX_BRACKETS ==
    << [limit |-> 208050,   rate |-> 0],
       [limit |-> 292850,   rate |-> 17],
       [limit |-> 670000,   rate |-> 40],
       [limit |-> 937900,   rate |-> 136],
       [limit |-> 1350000,  rate |-> 176],
       [limit |-> Infinity, rate |-> 178] >>

\* (rate * 100).toFixed(1): the percentage with one decimal digit
ToFixed1(permille) == <<permille \div 10, permille % 10>>

\* `Krok ${index} (${(rate * 100).toFixed(1)}%)`, index counted from 0
BracketLabel(i) ==
    <<"Krok", i - 1, ToFixed1(PROGRESSIVE_TAX_BRACKETS[i].rate)>>

ZeroResult ==
    [totalTax |-> Zero,
     details  |-> [projectedGross             |-> Zero,
                   socialSecurityContribution |-> Zero,
                   generalTaxableIncome       |-> Zero,
                   generalTax                 |-> Zero,
                   progressiveTax             |-> Zero,
                   progressiveTaxBreakdown    |-> <<>>]]

----------------------------------------------------------------------------
(* services/taxService.ts, multi-component formulation *)

\* BracketStep without the Math.min: the whole income above the previous limit
\* is taxed in every bracket it reaches
BracketStep_NoMin(g, i, acc) ==
    LET bracket          == PROGRESSIVE_TAX_BRACKETS[i]
        taxableInBracket == g - acc.lastLimit
        taxForBracket    == Times(Kr(taxableInBracket), bracket.rate)
    IN  IF g > acc.lastLimit /\ taxableInBracket > 0 /\ bracket.rate > 0
        THEN [progressiveTax |-> Add(acc.progressiveTax, taxForBracket),
              progressiveTaxBreakdown |->
                  Append(acc.progressiveTaxBreakdown,
                         [bracket |-> BracketLabel(i), tax |-> taxForBracket]),
              lastLimit |-> bracket.limit]
        ELSE [acc EXCEPT !.lastLimit = bracket.limit]

\* BracketStep with a bracket that starts at its lower limit instead of above it
BracketStep_OffByOne(g, i, acc) ==
    LET bracket          == PROGRESSIVE_TAX_BRACKETS[i]
        taxableInBracket == (IF g < bracket.limit THEN g ELSE bracket.limit)
                                - acc.lastLimit + 1
        taxForBracket    == Times(Kr(taxableInBracket), bracket.rate)
    IN  IF g >= acc.lastLimit /\ taxableInBracket > 0 /\ bracket.rate > 0
        THEN [progressiveTax |-> Add(acc.progressiveTax, taxForBracket),
              progressiveTaxBreakdown |->
                  Append(acc.progressiveTaxBreakdown,
                         [bracket |-> BracketLabel(i), tax |-> taxForBracket]),
              lastLimit |-> bracket.limit]
        ELSE [acc EXCEPT !.lastLimit = bracket.limit]

\* one pass of `for (const bracket of PROGRESSIVE_TAX_BRACKETS)`
BracketStep(g, i, acc) ==
    LET bracket          == PROGRESSIVE_TAX_BRACKETS[i]
        taxableInBracket == (IF g < bracket.limit THEN g ELSE bracket.limit)
                                - acc.lastLimit
        taxForBracket    == Times(Kr(taxableInBracket), bracket.rate)
    IN  IF g > acc.lastLimit /\ taxableInBracket > 0 /\ bracket.rate > 0
        THEN [progressiveTax |-> Add(acc.progressiveTax, taxForBracket),
              progressiveTaxBreakdown |->
                  Append(acc.progressiveTaxBreakdown,
                         [bracket |-> BracketLabel(i), tax |-> taxForBracket]),
              lastLimit |-> bracket.limit]
        ELSE [acc EXCEPT !.lastLimit = bracket.limit]

RECURSIVE BracketLoop(_, _, _)
BracketLoop(g, i, acc) ==
    IF i > Len(PROGRESSIVE_TAX_BRACKETS) THEN acc
    ELSE BracketLoop(g, i + 1, BracketStep(g, i, acc))

\* TotalOf adding the components after each has been rounded
TotalOf_Rounded(socialSecurityContribution, generalTax, progressiveTax) ==
    Add(Add(MathRound(socialSecurityContribution), MathRound(generalTax)),
        MathRound(progressiveTax))

\* socialSecurityContribution + generalTax + progressiveTax, unrounded
TotalOf(socialSecurityContribution, generalTax, progressiveTax) ==
    Add(Add(socialSecurityContribution, generalTax), progressiveTax)

CalculateNorwegianTaxMulti(projectedGrossIncome) ==
    IF projectedGrossIncome <= 0 THEN ZeroResult
    ELSE
    LET g == Kr(projectedGrossIncome)
        socialSecurityContribution == Times(g, SOCIAL_SECURITY_RATE)
        standardDeduction ==
            MathMin(Times(g, STANDARD_DEDUCTION_RATE), Kr(STANDARD_DEDUCTION_MAX))
        generalTaxableIncomeBase ==
            Sub(Sub(g, standardDeduction), Kr(PERSONAL_ALLOWANCE))
        generalTaxableIncome == MathMax(Zero, generalTaxableIncomeBase)
        generalTax == Times(generalTaxableIncome, GENERAL_TAX_RATE)
        loop == BracketLoop(projectedGrossIncome, 1,
                            [progressiveTax |-> Zero,
                             progressiveTaxBreakdown |-> <<>>,
                             lastLimit |-> 0])
        totalTax == TotalOf(socialSecurityContribution, generalTax,
                            loop.progressiveTax)
    IN  [totalTax |-> MathRound(totalTax),
         details  |->
            [projectedGross             |-> g,
             socialSecurityContribution |-> MathRound(socialSecurityContribution),
             generalTaxableIncome       |-> MathRound(generalTaxableIncome),
             generalTax                 |-> MathRound(generalTax),
             progressiveTax             |-> MathRound(loop.progressiveTax),
             progressiveTaxBreakdown    |-> loop.progressiveTaxBreakdown]]

----------------------------------------------------------------------------
(* services/taxService.ts, flat marginal formulation *)

\* FlatBranchOf with < for <= in the conditions
FlatBranchOf_Strict(g) ==
    IF g < 198349 THEN 1
    ELSE IF g < 279149 THEN 2
    ELSE IF g < 642949 THEN 3
    ELSE IF g < 926799 THEN 4
    ELSE IF g < 1499999 THEN 5
    ELSE 6

\* which branch of the if / else-if chain is taken
FlatBranchOf(g) ==
    IF g <= 198349 THEN 1
    ELSE IF g <= 279149 THEN 2
    ELSE IF g <= 642949 THEN 3
    ELSE IF g <= 926799 THEN 4
    ELSE IF g <= 1499999 THEN 5
    ELSE 6

FlatBranch1(g) == Times(Kr(g), 220)

\* FlatBranch2 without the tax of the first bracket
FlatBranch2_NoBase(g) == Times(Kr(g - 198349), 237)

FlatBranch2(g) ==
    Add(Times(Kr(198349), 220), Times(Kr(g - 198349), 237))

FlatBranch3(g) ==
    Add(Add(Times(Kr(198349), 220), Times(Kr(279149 - 198349), 237)),
        Times(Kr(g - 279149), 260))

FlatBranch4(g) ==
    Add(Add(Add(Times(Kr(198349), 220), Times(Kr(279149 - 198349), 237)),
            Times(Kr(642949 - 279149), 260)),
        Times(Kr(g - 642949), 355))

FlatBranch5(g) ==
    Add(Add(Add(Add(Times(Kr(198349), 220), Times(Kr(279149 - 198349), 237)),
                Times(Kr(642949 - 279149), 260)),
            Times(Kr(926799 - 642949), 355)),
        Times(Kr(g - 926799), 385))

FlatBranch6(g) ==
    Add(Add(Add(Add(Add(Times(Kr(198349), 220), Times(Kr(279149 - 198349), 237)),
                    Times(Kr(642949 - 279149), 260)),
                Times(Kr(926799 - 642949), 355)),
            Times(Kr(1499999 - 926799), 385)),
        Times(Kr(g - 1499999), 175))

FlatTotal(g) ==
    LET b == FlatBranchOf(g)
    IN  IF b = 1 THEN FlatBranch1(g)
        ELSE IF b = 2 THEN FlatBranch2(g)
        ELSE IF b = 3 THEN FlatBranch3(g)
        ELSE IF b = 4 THEN FlatBranch4(g)
        ELSE IF b = 5 THEN FlatBranch5(g)
        ELSE FlatBranch6(g)

\* CalculateNorwegianTaxFlat without the floor for a non-positive income
CalculateNorwegianTaxFlat_NoFloor(projectedGrossIncome) ==
    [totalTax |-> MathRound(FlatTotal(projectedGrossIncome)),
     details  |->
        [projectedGross             |-> Kr(projectedGrossIncome),
         socialSecurityContribution |-> Zero,
         generalTaxableIncome       |-> Zero,
         generalTax                 |-> Zero,
         progressiveTax             |-> Zero,
         progressiveTaxBreakdown    |-> <<>>]]

\* CalculateNorwegianTaxFlat rejecting a negative income with an error
CalculateNorwegianTaxFlat_Throws(projectedGrossIncome) ==
    IF projectedGrossIncome < 0 THEN [error |-> "negative income"]
    ELSE IF projectedGrossIncome = 0 THEN ZeroResult
    ELSE CalculateNorwegianTaxFlat_NoFloor(projectedGrossIncome)

\* CalculateNorwegianTaxFlat as a wrapper of the multi-component schedule
CalculateNorwegianTaxFlat_AsMulti(projectedGrossIncome) ==
    IF projectedGrossIncome <= 0 THEN ZeroResult
    ELSE [totalTax |-> CalculateNorwegianTaxMulti(projectedGrossIncome).totalTax,
          details  |->
             [projectedGross             |-> Kr(projectedGrossIncome),
              socialSecurityContribution |-> Zero,
              generalTaxableIncome       |-> Zero,
              generalTax                 |-> Zero,
              progressiveTax             |-> Zero,
              progressiveTaxBreakdown    |-> <<>>]]

CalculateNorwegianTaxFlat(projectedGrossIncome) ==
    IF projectedGrossIncome <= 0 THEN ZeroResult
    ELSE [totalTax |-> MathRound(FlatTotal(projectedGrossIncome)),
          details  |->
             [projectedGross             |-> Kr(projectedGrossIncome),
              socialSecurityContribution |-> Zero,
              generalTaxableIncome       |-> Zero,
              generalTax                 |-> Zero,
              progressiveTax             |-> Zero,
              progressiveTaxBreakdown    |-> <<>>]]

\* the bracket table the branch chain of the flat formulation spells out
FLAT_BRACKETS ==
    << [limit |-> 198349,   rate |-> 220],
       [limit |-> 279149,   rate |-> 237],
       [limit |-> 642949,   rate |-> 260],
       [limit |-> 926799,   rate |-> 355],
       [limit |-> 1499999,  rate |-> 385],
       [limit |-> Infinity, rate |-> 175] >>

----------------------------------------------------------------------------
(* Strings *)

\* A string of the program is the sequence of its characters; a character is
\* a one-letter string.  Alphabet lists the characters of the model in
\* code-point order.
Alphabet ==
    <<" ", "\"", "&", "'", "-", ".",
      "0", "1", "2", "3", "4", "5", "6", "7", "8", "9",
      ";", "<", ">", "A", "B", "a", "b", "c", "g", "l", "m",
      "o", "p", "q", "s", "t", "u">>

CharCode(c) == CHOOSE i \in 1..Len(Alphabet) : Alphabet[i] = c

Digits == <<"0", "1", "2", "3", "4", "5", "6", "7", "8", "9">>

IsDigit(c) == \E i \in 1..Len(Digits) : Digits[i] = c

DigitValue(c) == (CHOOSE i \in 1..Len(Digits) : Digits[i] = c) - 1

\* the decimal digits of a natural number
RECURSIVE NatToText(_)
NatToText(n) ==
    IF n < Len(Digits) THEN <<Digits[n + 1]>>
    ELSE Append(NatToText(n \div Len(Digits)), Digits[(n % Len(Digits)) + 1])

\* the natural number written by the first n characters of t, all digits
RECURSIVE TextToNatUpTo(_, _)
TextToNatUpTo(t, n) ==
    IF n = 0 THEN 0
    ELSE Len(Digits) * TextToNatUpTo(t, n - 1) + DigitValue(t[n])

\* the natural number written by a sequence of digits
TextToNat(t) == TextToNatUpTo(t, Len(t))

\* n written with at least w digits
RECURSIVE PadStart(_, _)
PadStart(t, w) == IF Len(t) >= w THEN t ELSE PadStart(<<"0">> \o t, w)

\* the date string YYYY-MM-DD of a calendar day
DateText(y, m, d) ==
    PadStart(NatToText(y), 4) \o <<"-">> \o PadStart(NatToText(m), 2)
        \o <<"-">> \o PadStart(NatToText(d), 2)

\* a.localeCompare(b) for strings over Alphabet: -1, 0 or 1
RECURSIVE LocaleCompare(_, _)
LocaleCompare(a, b) ==
    IF a = <<>> /\ b = <<>> THEN 0
    ELSE IF a = <<>> THEN -1
    ELSE IF b = <<>> THEN 1
    ELSE IF CharCode(Head(a)) < CharCode(Head(b)) THEN -1
    ELSE IF CharCode(Head(a)) > CharCode(Head(b)) THEN 1
    ELSE LocaleCompare(Tail(a), Tail(b))

\* the value undefined of an optional string field; it differs from every
\* string, the elements of a string being single characters
undefined == <<"undefined">>

\* the value null of a nullable string
null == "null"

----------------------------------------------------------------------------
(* types.ts: SalaryEntry *)

\* new Date(date).getFullYear() for a date string YYYY-MM-DD of a calendar
\* day, in a time zone at or east of UTC
GetFullYear(date) == TextToNat(SubSeq(date, 1, 4))

\* new Date(date).getTime() for such a date string, in days rather than
\* milliseconds and from another origin: differences keep their sign
GetTime(date) ==
    (TextToNat(SubSeq(date, 1, 4)) * 12 + TextToNat(SubSeq(date, 6, 7))) * 31
        + TextToNat(SubSeq(date, 9, 10))

\* s sorted by a comparator given as the matrix cmp[i][j] of its results on
\* the elements at i and j; Array.prototype.sort is stable
SortBy(s, cmp) ==
    LET n == Len(s)
        rank(i) ==
            Cardinality({j \in 1..n : (cmp[j][i] < 0)
                                       \/ (cmp[j][i] = 0 /\ j < i)}) + 1
    IN  [p \in 1..n |-> s[CHOOSE i \in 1..n : rank(i) = p]]

\* entries.sort((a, b) => new Date(b.date).getTime() - new Date(a.date).getTime())
SortNewestFirst(entries) ==
    SortBy(entries,
           [i \in 1..Len(entries) |-> [j \in 1..Len(entries) |->
               GetTime(entries[j].date) - GetTime(entries[i].date)]])

\* entries.sort((a, b) => new Date(a.date).getTime() - new Date(b.date).getTime())
SortOldestFirst(entries) ==
    SortBy(entries,
           [i \in 1..Len(entries) |-> [j \in 1..Len(entries) |->
               GetTime(entries[i].date) - GetTime(entries[j].date)]])

\* entries.filter(keep), keep given as the set of the positions kept
RECURSIVE FilterAt(_, _, _)
FilterAt(s, keep, i) ==
    IF i > Len(s) THEN <<>>
    ELSE IF i \in keep THEN <<s[i]>> \o FilterAt(s, keep, i + 1)
    ELSE FilterAt(s, keep, i + 1)

Filter(s, keep) == FilterAt(s, keep, 1)

----------------------------------------------------------------------------
(* services/xmlService.ts *)

\* An XML file is modelled by what the parser makes of it:
\*   readable   whether the FileReader can read it,
\*   wellFormed whether its markup (tags, nesting, prolog) is well-formed,
\*   root       the tag of its document element,
\*   entries    its <Entry> elements in document order, each the sequence of
\*              its child elements [tag, data] with data the character data
\*              as written in the file, references not yet replaced.

\* Not a Number
NaN == [nan |-> TRUE]

\* the references escapeXml writes, which are those XML predefines
Entities ==
    << [char |-> "<",  ref |-> <<"&", "l", "t", ";">>],
       [char |-> ">",  ref |-> <<"&", "g", "t", ";">>],
       [char |-> "&",  ref |-> <<"&", "a", "m", "p", ";">>],
       [char |-> "'",  ref |-> <<"&", "a", "p", "o", "s", ";">>],
       [char |-> "\"", ref |-> <<"&", "q", "u", "o", "t", ";">>] >>

RECURSIVE EscapeXml(_)
EscapeXml(unsafe) ==
    IF unsafe = <<>> THEN <<>>
    ELSE LET c == Head(unsafe)
         IN  (IF \E i \in DOMAIN Entities : Entities[i].char = c
              THEN Entities[CHOOSE i \in DOMAIN Entities :
                                Entities[i].char = c].ref
              ELSE <<c>>) \o EscapeXml(Tail(unsafe))

\* what the parser answers for character data that is not well-formed
ParserError == <<"parsererror">>

StartsWith(s, prefix) ==
    Len(s) >= Len(prefix) /\ SubSeq(s, 1, Len(prefix)) = prefix

\* the reference at the head of character data, as a sequence of at most
\* one element of Entities
ReferenceAt(data) ==
    IF \E i \in DOMAIN Entities : StartsWith(data, Entities[i].ref)
    THEN <<Entities[CHOOSE i \in DOMAIN Entities :
                        StartsWith(data, Entities[i].ref)]>>
    ELSE <<>>

\* whether character data is well-formed: no bare <, and no & that begins
\* no reference
RECURSIVE WellFormedData(_)
WellFormedData(data) ==
    IF data = <<>> THEN TRUE
    ELSE IF Head(data) = "<" THEN FALSE
    ELSE IF Head(data) = "&"
    THEN /\ ReferenceAt(data) # <<>>
         /\ WellFormedData(SubSeq(data, Len(ReferenceAt(data)[1].ref) + 1,
                                  Len(data)))
    ELSE WellFormedData(Tail(data))

\* well-formed character data with every reference replaced
RECURSIVE Dereferenced(_)
Dereferenced(data) ==
    IF data = <<>> THEN <<>>
    ELSE IF Head(data) = "&"
    THEN <<ReferenceAt(data)[1].char>>
            \o Dereferenced(SubSeq(data, Len(ReferenceAt(data)[1].ref) + 1,
                                   Len(data)))
    ELSE <<Head(data)>> \o Dereferenced(Tail(data))

\* DOMParser on character data: the text content, or ParserError
TextContent(data) ==
    IF WellFormedData(data) THEN Dereferenced(data) ELSE ParserError

\* String.prototype.trim; the space is the white space of Alphabet
RECURSIVE TrimStart(_)
TrimStart(s) ==
    IF s # <<>> /\ Head(s) = " " THEN TrimStart(Tail(s)) ELSE s

\* the length of s without the spaces at its end, s taken up to n
RECURSIVE TrimmedLength(_, _)
TrimmedLength(s, n) ==
    IF n > 0 /\ s[n] = " " THEN TrimmedLength(s, n - 1) ELSE n

TrimEnd(s) == SubSeq(s, 1, TrimmedLength(s, Len(s)))

Trim(s) == TrimEnd(TrimStart(s))

\* the longest prefix of s made of digits
RECURSIVE DigitPrefix(_)
DigitPrefix(s) ==
    IF s # <<>> /\ IsDigit(Head(s)) THEN <<Head(s)>> \o DigitPrefix(Tail(s))
    ELSE <<>>

\* s lengthened to w characters with zeros at its end
RECURSIVE PadEnd(_, _)
PadEnd(s, w) == IF Len(s) >= w THEN s ELSE PadEnd(Append(s, "0"), w)

\* the length of s without the zeros at its end, s taken up to n
RECURSIVE StrippedLength(_, _)
StrippedLength(s, n) ==
    IF n > 0 /\ s[n] = "0" THEN StrippedLength(s, n - 1) ELSE n

StripZeros(s) == SubSeq(s, 1, StrippedLength(s, Len(s)))

\* parseFloat over Alphabet (no exponent, no plus sign): a sign, digits, a
\* point and digits; the longest such prefix counts, whatever follows it.
\* The strings of the model have at most 4 digits after the
\* point.
ParseFloat(string) ==
    LET s        == TrimStart(string)
        negative == s # <<>> /\ Head(s) = "-"
        unsigned == IF negative THEN Tail(s) ELSE s
        int      == DigitPrefix(unsigned)
        afterInt == SubSeq(unsigned, Len(int) + 1, Len(unsigned))
        frac     == IF afterInt # <<>> /\ Head(afterInt) = "."
                    THEN DigitPrefix(Tail(afterInt)) ELSE <<>>
        k        == TextToNat(int)
        t        == TextToNat(PadEnd(SubSeq(frac, 1, IF Len(frac) < 4 THEN Len(frac)
                                                       ELSE 4), 4))
    IN  IF int = <<>> /\ frac = <<>> THEN NaN
        ELSE IF negative THEN Norm(-k, -t) ELSE Norm(k, t)

\* the string a template literal makes of a number
NumberToString(number) ==
    LET negative == number.kr < 0
        abs      == IF negative THEN Sub(Zero, number) ELSE number
        frac     == StripZeros(PadStart(NatToText(abs.tt), 4))
    IN  (IF negative THEN <<"-">> ELSE <<>>)
            \o NatToText(abs.kr)
            \o (IF frac = <<>> THEN <<>> ELSE <<".">> \o frac)

Element(tag, data) == [tag |-> tag, data |-> data]

\* the <Entry> element exportEntriesToXml writes for an entry
EntryElement(entry) ==
    <<Element("Date", entry.date)>>
    \o (IF entry.companyName # undefined /\ entry.companyName # <<>>
        THEN <<Element("CompanyName", EscapeXml(entry.companyName))>>
        ELSE <<>>)
    \o <<Element("GrossSalary", NumberToString(entry.grossSalary)),
         Element("NetSalary", NumberToString(entry.netSalary)),
         Element("TaxWithheld", NumberToString(entry.taxWithheld))>>
    \o (IF entry.sourceFileName # undefined /\ entry.sourceFileName # <<>>
        THEN <<Element("SourceFileName", EscapeXml(entry.sourceFileName))>>
        ELSE <<>>)

\* exportEntriesToXml: the file it offers for download.  The sort is in
\* place: the array passed in is left oldest first.
ExportEntriesToXml(entries) ==
    LET sortedEntries == SortOldestFirst(entries)
    IN  [readable   |-> TRUE,
         wellFormed |-> TRUE,
         root       |-> "SalaryEntries",
         entries    |-> [i \in DOMAIN sortedEntries |->
                            EntryElement(sortedEntries[i])]]

\* whether the parser reports a parsererror for the file
HasParserError(file) ==
    \/ ~file.wellFormed
    \/ \E i \in DOMAIN file.entries : \E j \in DOMAIN file.entries[i] :
          TextContent(file.entries[i][j].data) = ParserError

\* getElementValue(tagName) on an <Entry> element
GetElementValue(entryNode, tagName) ==
    IF \E j \in DOMAIN entryNode : entryNode[j].tag = tagName
    THEN Trim(TextContent(entryNode[CHOOSE j \in DOMAIN entryNode :
                /\ entryNode[j].tag = tagName
                /\ \A h \in 1..(j - 1) : entryNode[h].tag # tagName].data))
    ELSE undefined

\* !value for a value of type string | undefined
Falsy(value) == value = undefined \/ value = <<>>

\* /^\d{4}-\d{2}-\d{2}$/.test(date)
TestDate(date) ==
    /\ Len(date) = 10
    /\ \A i \in {1, 2, 3, 4, 6, 7, 9, 10} : IsDigit(date[i])
    /\ date[5] = "-"
    /\ date[8] = "-"

\* one turn of the loop over the <Entry> elements: the record pushed, or the
\* validation error pushed
ImportEntry(entryNode) ==
    LET date           == GetElementValue(entryNode, "Date")
        companyName    == GetElementValue(entryNode, "CompanyName")
        grossSalaryStr == GetElementValue(entryNode, "GrossSalary")
        netSalaryStr   == GetElementValue(entryNode, "NetSalary")
        taxWithheldStr == GetElementValue(entryNode, "TaxWithheld")
        sourceFileName == GetElementValue(entryNode, "SourceFileName")
    IN  IF Falsy(date) \/ Falsy(grossSalaryStr) \/ Falsy(netSalaryStr)
            \/ Falsy(taxWithheldStr)
        THEN [error |-> "missing field"]
        ELSE IF ~TestDate(date) THEN [error |-> "date format"]
        ELSE LET grossSalary == ParseFloat(grossSalaryStr)
                 netSalary   == ParseFloat(netSalaryStr)
                 taxWithheld == ParseFloat(taxWithheldStr)
             IN  IF grossSalary = NaN \/ netSalary = NaN \/ taxWithheld = NaN
                 THEN [error |-> "not a number"]
                 ELSE [date           |-> date,
                       companyName    |-> IF Falsy(companyName) THEN undefined
                                          ELSE companyName,
                       grossSalary    |-> grossSalary,
                       netSalary      |-> netSalary,
                       taxWithheld    |-> taxWithheld,
                       sourceFileName |-> IF Falsy(sourceFileName)
                                          THEN undefined ELSE sourceFileName]

IsError(turn) == "error" \in DOMAIN turn

\* importEntriesFromXml: how the promise it returns settles
ImportEntriesFromXml(file) ==
    IF ~file.readable
    THEN [status |-> "rejected", reason |-> "cannot read the file"]
    ELSE IF HasParserError(file)
    THEN [status |-> "rejected", reason |-> "XML parsing error"]
    ELSE IF file.root # "SalaryEntries"
    THEN [status |-> "rejected", reason |-> "file format error"]
    ELSE LET turns == [i \in DOMAIN file.entries |->
                            ImportEntry(file.entries[i])]
             importedEntries ==
                Filter(turns, {i \in DOMAIN turns : ~IsError(turns[i])})
             validationErrors ==
                Filter(turns, {i \in DOMAIN turns : IsError(turns[i])})
         IN  IF Len(importedEntries) = 0 /\ Len(validationErrors) > 0
             THEN [status |-> "rejected", reason |-> "no entries imported"]
             ELSE [status |-> "resolved", value |-> importedEntries]

----------------------------------------------------------------------------
(* The history view: components/SalaryHistory.tsx, and the later version   *)
(* of the same component kept in components/AddEntry.tsx                   *)

\* "import": components/SalaryHistory.tsx, with the XML import and export
\* "filter": components/AddEntry.tsx, with the company filter and the
\*           sortable columns
ViewVersions == {"import", "filter"}

\* the option 'all' of the company filter
All == <<"a", "l", "l">>

SortableKeys ==
    {"date", "companyName", "grossSalary", "netSalary", "taxWithheld"}

InitialSortConfig == [key |-> "date", direction |-> "descending"]

\* A nullable value that is not a string (selectedYear, taxCalculation,
\* successCount) is a sequence of at most one element: <<>> is null.

\* the elements of a set of numbers, largest first
Descending(S) ==
    [p \in 1..Cardinality(S) |->
        CHOOSE y \in S : Cardinality({z \in S : z > y}) = p - 1]

Years(entries) ==
    Descending({GetFullYear(entries[i].date) : i \in DOMAIN entries})

Includes(s, x) == \E i \in DOMAIN s : s[i] = x

InitialSelectedYear(entries) ==
    LET years == Years(entries)
    IN  IF Len(years) > 0 THEN <<years[1]>> ELSE <<>>

\* an effect that only selects a year when none is selected
EffectSelectedYear_KeepsYear(years, year) ==
    IF year = <<>> /\ Len(years) > 0 THEN <<years[1]>> ELSE year

\* the effect on [years, selectedYear]: the selected year it leaves
EffectSelectedYear(years, year) ==
    LET truthy == year # <<>> /\ year[1] # 0
    IN  IF truthy /\ ~Includes(years, year[1])
        THEN IF Len(years) > 0 THEN <<years[1]>> ELSE <<>>
        ELSE IF ~truthy /\ Len(years) > 0 THEN <<years[1]>>
        ELSE year

\* filteredEntries of the "import" version, yearFilteredEntries of "filter"
YearFilteredEntries(entries, year) ==
    IF year = <<>> THEN <<>>
    ELSE Filter(entries, {i \in DOMAIN entries :
                            GetFullYear(entries[i].date) = year[1]})

\* the names the company filter offers; their order plays no part
CompanyNames(yearFilteredEntries) ==
    {yearFilteredEntries[i].companyName : i \in
        {j \in DOMAIN yearFilteredEntries :
            /\ yearFilteredEntries[j].companyName # undefined
            /\ yearFilteredEntries[j].companyName # <<>>}}

\* the comparator of displayedEntries.  Only companyName can be undefined.
\* For two entries without a company the code answers 1 either way, which
\* leaves their order to the engine; they are kept in place here.
CompareEntries(a, b, config) ==
    LET key == config.key
        aUndefined == key = "companyName" /\ a.companyName = undefined
        bUndefined == key = "companyName" /\ b.companyName = undefined
        comparison ==
            IF key \in {"grossSalary", "netSalary", "taxWithheld"}
            THEN IF Less(a[key], b[key]) THEN -1
                 ELSE IF Less(b[key], a[key]) THEN 1 ELSE 0
            ELSE LocaleCompare(a[key], b[key])
    IN  IF aUndefined /\ bUndefined THEN 0
        ELSE IF aUndefined THEN 1
        ELSE IF bUndefined THEN -1
        ELSE IF config.direction = "ascending" THEN comparison
        ELSE -comparison

DisplayedEntries(yearFilteredEntries, company, config) ==
    LET filtered ==
            IF company # All
            THEN Filter(yearFilteredEntries,
                        {i \in DOMAIN yearFilteredEntries :
                            yearFilteredEntries[i].companyName = company})
            ELSE yearFilteredEntries
    IN  SortBy(filtered,
               [i \in DOMAIN filtered |-> [j \in DOMAIN filtered |->
                   CompareEntries(filtered[i], filtered[j], config)]])

\* requestSort(key): the sort configuration it sets
RequestedSort(config, key) ==
    [key |-> key,
     direction |-> IF config.key = key /\ config.direction = "ascending"
                   THEN "descending" ELSE "ascending"]

\* yearTotals over the entries the version sums; every amount of an entry is
\* a number, so Number(x || 0) is x
YearTotals(entries, year, company, config, view) ==
    LET summed ==
            IF view = "import" THEN YearFilteredEntries(entries, year)
            ELSE DisplayedEntries(YearFilteredEntries(entries, year),
                                  company, config)
    IN  [gross |-> SumAmounts([i \in DOMAIN summed |-> summed[i].grossSalary]),
         net   |-> SumAmounts([i \in DOMAIN summed |-> summed[i].netSalary]),
         tax   |-> SumAmounts([i \in DOMAIN summed |-> summed[i].taxWithheld]),
         length |-> Len(summed)]

\* calculateNorwegianTax as the view imports it; the recorded amounts of the
\* model are whole kroner
CalculateNorwegianTax(v, grossIncome) ==
    IF v = "multi" THEN CalculateNorwegianTaxMulti(grossIncome.kr)
    ELSE CalculateNorwegianTaxFlat(grossIncome.kr)

\* taxCalculation with difference = totalTaxPaid + totalTaxDue
TaxCalculation_Sum(v, yearTotals) ==
    IF yearTotals.gross = Zero THEN <<>>
    ELSE LET calculationResult == CalculateNorwegianTax(v, yearTotals.gross)
         IN  <<[difference     |-> Add(yearTotals.tax, calculationResult.totalTax),
                currentGross   |-> yearTotals.gross,
                totalTaxPaid   |-> yearTotals.tax,
                totalTaxDue    |-> calculationResult.totalTax,
                details        |-> calculationResult.details,
                monthsRecorded |-> yearTotals.length]>>

TaxCalculation(v, yearTotals) ==
    IF yearTotals.gross = Zero THEN <<>>
    ELSE LET calculationResult == CalculateNorwegianTax(v, yearTotals.gross)
             totalTaxDue == calculationResult.totalTax
             totalTaxPaid == yearTotals.tax
             difference == Sub(totalTaxPaid, totalTaxDue)
         IN  <<[difference     |-> difference,
                currentGross   |-> yearTotals.gross,
                totalTaxPaid   |-> totalTaxPaid,
                totalTaxDue    |-> totalTaxDue,
                details        |-> calculationResult.details,
                monthsRecorded |-> yearTotals.length]>>

\* the line above the amount of the comparison
ComparisonLabel(taxCalculation) ==
    IF Leq(Zero, taxCalculation.difference)
    THEN "Biezaca nadplata podatku:"
    ELSE "Biezaca niedoplata podatku:"

----------------------------------------------------------------------------
(* App.tsx and the history view it renders *)

\* the most imports started in a run
MaxImports == 2

Payslip(id, date, companyName, gross, net, tax) ==
    [id             |-> id,
     date           |-> date,
     companyName    |-> companyName,
     grossSalary    |-> Kr(gross),
     netSalary      |-> Kr(net),
     taxWithheld    |-> Kr(tax),
     sourceFileName |-> undefined]

\* what the server may hold when the application starts, in its own order:
\* a year with one payslip, a year with two employers, and a payslip without
\* employer and without pay on the date of another
Stored ==
    << Payslip(1, DateText(2024, 1, 15), <<"A">>, 200000, 150000, 50000),
       Payslip(2, DateText(2023, 12, 15), <<"A">>, 100000, 92100, 7900),
       Payslip(3, DateText(2024, 2, 15), <<"B">>, 250000, 210000, 40000),
       Payslip(4, DateText(2024, 1, 15), undefined, 0, 0, 0) >>

StoredLists == {Filter(Stored, keep) : keep \in SUBSET DOMAIN Stored}

\* the files the user may pick for an import: a backup with a new date, a
\* backup with a date of Stored and a new one, a backup with dates of Stored
\* only, and a file that is not XML
ImportableFiles ==
    { ExportEntriesToXml(
          <<Payslip(1, DateText(2025, 1, 15), <<"B">>, 300000, 220000, 80000)>>),
      ExportEntriesToXml(
          <<Payslip(1, DateText(2024, 1, 15), <<"A">>, 200000, 150000, 50000),
            Payslip(2, DateText(2024, 3, 15), <<"B">>, 250000, 210000, 40000)>>),
      ExportEntriesToXml(
          <<Payslip(1, DateText(2024, 1, 15), <<"A">>, 200000, 150000, 50000)>>),
      [readable |-> TRUE, wellFormed |-> FALSE, root |-> "SalaryEntries",
       entries |-> <<>>] }

\* the server's answer to importEntries: the entries sent, each with an id
\* of its own
AddedEntries(entries, firstId) ==
    [i \in DOMAIN entries |->
        [id             |-> firstId + i - 1,
         date           |-> entries[i].date,
         companyName    |-> entries[i].companyName,
         grossSalary    |-> entries[i].grossSalary,
         netSalary      |-> entries[i].netSalary,
         taxWithheld    |-> entries[i].taxWithheld,
         sourceFileName |-> entries[i].sourceFileName]]

Without(s, k) == Filter(s, DOMAIN s \ {k})

NoImportStatus == [error |-> "", successCount |-> <<>>]

TaxConstructed == calls = <<>>

\* the confirmation dialog when closed; no onConfirm is the empty sequence
ClosedConfirmation == [isOpen |-> FALSE, message |-> "", onConfirm |-> <<>>]

AppConstructed ==
    /\ salaryEntries = <<>>
    /\ isLoading = TRUE
    /\ error = null
    /\ selectedYear = InitialSelectedYear(<<>>)
    /\ selectedCompany = All
    /\ sortConfig = InitialSortConfig
    /\ isImporting = FALSE
    /\ importStatus = NoImportStatus
    /\ inFlight = <<[op |-> "getEntries"]>>
    /\ nextId = Len(Stored) + 1
    /\ importCalls = <<>>
    /\ activeTab = "history"
    /\ editingEntry = <<>>
    /\ confirmationState = ClosedConfirmation
    /\ saveCalls = <<>>
    /\ deleteCalls = <<>>


XmlConstructed ==
    /\ exportedArray = <<>>
    /\ xmlFile = <<>>
    /\ xmlSettled = <<>>


----------------------------------------------------------------------------
(* The calls made to the estimator *)

Versions == {"multi", "flat"}

\* the kinks of the two schedules: bracket limits, the income at which the
\* standard deduction reaches its cap (104450 / 0.46), the income at which the
\* general taxable income becomes positive (88250 / 0.54), and the income of
\* the worked example
Thresholds ==
    {0, 208050, 292850, 670000, 937900, 1350000,
     198349, 279149, 642949, 926799, 1499999,
     227065, 163426, 500000}

Incomes ==
    UNION {(t - Window)..(t + Window) : t \in Thresholds}
      \cup {k * 100000 : k \in 0..MaxGrid}

\* the two most recent calls, newest first
Record(g, res) ==
    LET c == [g |-> g, res |-> res]
    IN  IF calls = <<>> THEN <<c>> ELSE <<c, calls[1]>>

Init ==
    /\ version \in Versions
    /\ TaxConstructed
    /\ viewVersion = "import"
    /\ AppConstructed
    /\ XmlConstructed

CallMulti(g) ==
    /\ version = "multi"
    /\ calls' = Record(g, CalculateNorwegianTaxMulti(g))
    /\ UNCHANGED <<version, xmlVars, appVars, tabVars>>

CallFlat(g) ==
    /\ version = "flat"
    /\ calls' = Record(g, CalculateNorwegianTaxFlat(g))
    /\ UNCHANGED <<version, xmlVars, appVars, tabVars>>

Next ==
    \/ \E g \in Incomes : CallMulti(g)
    \/ \E g \in Incomes : CallFlat(g)

Spec == Init /\ [][Next]_vars

----------------------------------------------------------------------------
(* XML export and import on their own *)

\* the longest array handed to exportEntriesToXml
MaxExported == 2

\* the largest number of <Entry> elements of a file written by hand
MaxFileEntries == 2

Amounts(gross, net, tax) ==
    [grossSalary |-> gross, netSalary |-> net, taxWithheld |-> tax]

\* entries to export: two dates, names with and without special characters
\* and surrounding spaces, whole and fractional amounts
ExportableEntries ==
    {[id             |-> 1,
      date           |-> date,
      companyName    |-> companyName,
      grossSalary    |-> amounts.grossSalary,
      netSalary      |-> amounts.netSalary,
      taxWithheld    |-> amounts.taxWithheld,
      sourceFileName |-> sourceFileName] :
        date \in {DateText(2024, 1, 15), DateText(2023, 12, 15)},
        companyName \in {undefined, <<"A">>, <<"a", "&", "b">>,
                         <<"<", "A", ">">>, <<" ", "A">>, <<" ">>},
        amounts \in {Amounts(Kr(50000), Kr(38000), Kr(12000)),
                     Amounts(Norm(1234, 5000), Zero, Norm(-1, 7500))},
        sourceFileName \in {undefined, <<"'", "a", ".", "b", "\"">>}}

\* the sequences of at most n elements of S
RECURSIVE SeqsUpTo(_, _)
SeqsUpTo(S, n) ==
    IF n = 0 THEN {<<>>}
    ELSE LET shorter == SeqsUpTo(S, n - 1)
         IN  shorter \cup {Append(s, x) : s \in shorter, x \in S}

\* <Entry> elements written by hand: fields missing, empty, misformatted
HandWrittenEntries ==
    {date \o gross \o <<Element("NetSalary", <<"1">>)>> \o tax :
        date \in {<<>>,
                  <<Element("Date", DateText(2024, 1, 15))>>,
                  <<Element("Date", <<" ">> \o DateText(2024, 1, 15))>>,
                  <<Element("Date", <<"1", "5", ".", "0", "1", ".",
                                      "2", "0", "2", "4">>)>>},
        gross \in {<<>>,
                   <<Element("GrossSalary", <<"5", "0", "0", "0", "0">>)>>,
                   <<Element("GrossSalary", <<"5", "0", " ", "0", "0", "0">>)>>,
                   <<Element("GrossSalary", <<"a", "b", "c">>)>>,
                   <<Element("GrossSalary", <<"1", "&", "2">>)>>},
        tax \in {<<Element("TaxWithheld", <<>>)>>,
                 <<Element("TaxWithheld", <<"1", "2", ".", "5">>)>>}}

HandWrittenFiles ==
    {[readable |-> TRUE, wellFormed |-> TRUE, root |-> "SalaryEntries",
      entries |-> entries] :
        entries \in SeqsUpTo(HandWrittenEntries, MaxFileEntries)}
    \cup {[readable |-> FALSE, wellFormed |-> TRUE, root |-> "SalaryEntries",
           entries |-> <<>>],
          [readable |-> TRUE, wellFormed |-> FALSE, root |-> "SalaryEntries",
           entries |-> <<>>],
          [readable |-> TRUE, wellFormed |-> TRUE, root |-> "Entries",
           entries |-> <<>>]}

\* exportEntriesToXml(entries) on the array awaiting its export: the array
\* is sorted in place, the file is the download
Export ==
    /\ exportedArray # <<>>
    /\ xmlFile = <<>>
    /\ exportedArray' = <<SortOldestFirst(exportedArray[1])>>
    /\ xmlFile' = <<ExportEntriesToXml(exportedArray[1])>>
    /\ UNCHANGED <<xmlSettled, taxVars, appVars, tabVars>>

\* importEntriesFromXml(file), to the settling of its promise
Import ==
    /\ xmlFile # <<>>
    /\ xmlSettled = <<>>
    /\ xmlSettled' = <<ImportEntriesFromXml(xmlFile[1])>>
    /\ UNCHANGED <<exportedArray, xmlFile, taxVars, appVars, tabVars>>

\* either an array of entries is about to be exported, or the user has a
\* file written by hand
XmlInit ==
    /\ version = "multi"
    /\ TaxConstructed
    /\ viewVersion = "import"
    /\ AppConstructed
    /\ xmlSettled = <<>>
    /\ \/ /\ exportedArray \in
                {<<entries>> : entries \in
                    SeqsUpTo(ExportableEntries, MaxExported)}
          /\ xmlFile = <<>>
       \/ /\ exportedArray = <<>>
          /\ xmlFile \in {<<f>> : f \in HandWrittenFiles}

XmlNext ==
    \/ Export
    \/ Import

XmlSpec == XmlInit /\ [][XmlNext]_vars

\* the effect of the view on [years, selectedYear], run after the entries
\* or the selected year have changed
ViewEffect(entries, year) ==
    IF activeTab = "history"
    THEN /\ selectedYear' = EffectSelectedYear(Years(entries), year)
         /\ selectedCompany' = IF viewVersion = "filter" THEN All
                               ELSE selectedCompany
    ELSE UNCHANGED <<selectedYear, selectedCompany>>

\* loadEntries, after api.getEntries has answered with entries
GetEntriesResolved(k, entries) ==
    /\ k \in DOMAIN inFlight
    /\ inFlight[k].op = "getEntries"
    /\ salaryEntries' = SortNewestFirst(entries)
    /\ error' = null
    /\ isLoading' = FALSE
    /\ inFlight' = Without(inFlight, k)
    /\ ViewEffect(salaryEntries', selectedYear)
    /\ UNCHANGED <<viewVersion, sortConfig, isImporting, importStatus,
                   nextId, importCalls, taxVars, xmlVars, tabVars>>

\* loadEntries, after api.getEntries has failed
GetEntriesRejected(k) ==
    /\ k \in DOMAIN inFlight
    /\ inFlight[k].op = "getEntries"
    /\ error' = "HTTP error"
    /\ isLoading' = FALSE
    /\ inFlight' = Without(inFlight, k)
    /\ UNCHANGED <<viewVersion, salaryEntries, selectedYear, selectedCompany,
                   sortConfig, isImporting, importStatus, nextId, importCalls,
                   taxVars, xmlVars, tabVars>>

\* a year button of the view
SetSelectedYear(year) ==
    /\ ~isLoading
    /\ activeTab = "history"
    /\ Includes(Years(salaryEntries), year)
    /\ <<year>> # selectedYear
    /\ ViewEffect(salaryEntries, <<year>>)
    /\ UNCHANGED <<viewVersion, salaryEntries, isLoading, error, sortConfig,
                   isImporting, importStatus, inFlight, nextId, importCalls,
                   taxVars, xmlVars, tabVars>>

\* the company filter of the "filter" version
SetSelectedCompany(company) ==
    /\ ~isLoading
    /\ activeTab = "history"
    /\ viewVersion = "filter"
    /\ company \in {All} \cup
          CompanyNames(YearFilteredEntries(salaryEntries, selectedYear))
    /\ selectedCompany' = company
    /\ UNCHANGED <<viewVersion, salaryEntries, isLoading, error, selectedYear,
                   sortConfig, isImporting, importStatus, inFlight, nextId,
                   importCalls, taxVars, xmlVars, tabVars>>

\* a column header of the "filter" version
RequestSort(key) ==
    /\ ~isLoading
    /\ activeTab = "history"
    /\ viewVersion = "filter"
    /\ salaryEntries # <<>>
    /\ sortConfig' = RequestedSort(sortConfig, key)
    /\ UNCHANGED <<viewVersion, salaryEntries, isLoading, error, selectedYear,
                   selectedCompany, isImporting, importStatus, inFlight,
                   nextId, importCalls, taxVars, xmlVars, tabVars>>

\* handleExport of the "import" version; exportEntriesToXml sorts the array
\* of the application state in place
HandleExport ==
    /\ ~isLoading
    /\ activeTab = "history"
    /\ viewVersion = "import"
    /\ ~isImporting
    /\ IF Len(salaryEntries) = 0
       THEN /\ importStatus' = [error |-> "no data to export",
                                successCount |-> <<>>]
            /\ UNCHANGED salaryEntries
       ELSE /\ salaryEntries' = SortOldestFirst(salaryEntries)
            /\ importStatus' = NoImportStatus
    /\ UNCHANGED <<viewVersion, isLoading, error, selectedYear,
                   selectedCompany, sortConfig, isImporting, inFlight, nextId,
                   importCalls, taxVars, xmlVars, tabVars>>

\* handleFileSelect of the "import" version up to its await: the file is
\* being read; the onImport the handler will call is the one of this render,
\* which reads the salaryEntries of this render
HandleFileSelect(f) ==
    /\ ~isLoading
    /\ activeTab = "history"
    /\ viewVersion = "import"
    /\ ~isImporting
    /\ Len(importCalls) < MaxImports
    /\ isImporting' = TRUE
    /\ importStatus' = NoImportStatus
    /\ inFlight' = Append(inFlight, [op |-> "readAsText", file |-> f,
                                     salaryEntries |-> salaryEntries,
                                     mounted |-> TRUE])
    /\ UNCHANGED <<viewVersion, salaryEntries, isLoading, error, selectedYear,
                   selectedCompany, sortConfig, nextId, importCalls,
                   taxVars, xmlVars, tabVars>>

\* newUniqueEntries without the filter on existingDates
NewUniqueEntries_All(entries, importedEntries) == importedEntries

\* handleImportEntries(importedEntries) up to its await, reading the
\* salaryEntries of its render: the entries it sends to the server
NewUniqueEntries(entries, importedEntries) ==
    LET existingDates == {entries[i].date : i \in DOMAIN entries}
    IN  Filter(importedEntries,
               {i \in DOMAIN importedEntries :
                    importedEntries[i].date \notin existingDates})

\* handleFileSelect after its await: importEntriesFromXml has settled; when
\* it resolved, onImport is called and the promise it returns is stored as
\* the success count without being awaited.  The state setters of a view
\* that has been unmounted since the file was picked do nothing.
FileRead(k) ==
    /\ k \in DOMAIN inFlight
    /\ inFlight[k].op = "readAsText"
    /\ \E outcome \in {ImportEntriesFromXml(inFlight[k].file)} :
         IF outcome.status = "rejected"
         THEN /\ importStatus' =
                   IF inFlight[k].mounted
                   THEN [error |-> outcome.reason, successCount |-> <<>>]
                   ELSE importStatus
              /\ inFlight' = Without(inFlight, k)
              /\ UNCHANGED importCalls
         ELSE \E newUniqueEntries \in
                    {NewUniqueEntries(inFlight[k].salaryEntries,
                                      outcome.value)} :
                /\ importStatus' =
                     IF inFlight[k].mounted
                     THEN [error |-> "",
                           successCount |->
                               <<[promise |-> Len(importCalls) + 1]>>]
                     ELSE importStatus
                /\ inFlight' =
                     IF Len(newUniqueEntries) > 0
                     THEN Append(Without(inFlight, k),
                                 [op |-> "importEntries",
                                  entries |-> newUniqueEntries,
                                  call |-> Len(importCalls) + 1])
                     ELSE Without(inFlight, k)
                /\ importCalls' =
                     Append(importCalls,
                            [list     |-> inFlight[k].salaryEntries,
                             imported |-> outcome.value,
                             settled  |-> IF Len(newUniqueEntries) > 0
                                          THEN <<>>
                                          ELSE <<[status |-> "fulfilled",
                                                  value |-> 0]>>])
    /\ isImporting' = IF inFlight[k].mounted THEN FALSE ELSE isImporting
    /\ UNCHANGED <<viewVersion, salaryEntries, isLoading, error, selectedYear,
                   selectedCompany, sortConfig, nextId, taxVars, xmlVars,
                   tabVars>>

\* handleImportEntries after its await, api.importEntries having answered
ImportEntriesResolved(k) ==
    /\ k \in DOMAIN inFlight
    /\ inFlight[k].op = "importEntries"
    /\ LET addedEntries == AddedEntries(inFlight[k].entries, nextId)
       IN  /\ salaryEntries' = SortNewestFirst(salaryEntries \o addedEntries)
           /\ nextId' = nextId + Len(addedEntries)
           /\ importCalls' =
                [importCalls EXCEPT
                   ![inFlight[k].call].settled =
                        <<[status |-> "fulfilled",
                           value |-> Len(addedEntries)]>>]
    /\ error' = null
    /\ inFlight' = Without(inFlight, k)
    /\ ViewEffect(salaryEntries', selectedYear)
    /\ UNCHANGED <<viewVersion, isLoading, sortConfig, isImporting,
                   importStatus, taxVars, xmlVars, tabVars>>

\* handleImportEntries after its await, api.importEntries having failed: the
\* error is set and thrown again, which rejects the promise returned
ImportEntriesRejected(k) ==
    /\ k \in DOMAIN inFlight
    /\ inFlight[k].op = "importEntries"
    /\ error' = "HTTP error"
    /\ importCalls' =
         [importCalls EXCEPT
            ![inFlight[k].call].settled =
                 <<[status |-> "rejected", value |-> 0]>>]
    /\ inFlight' = Without(inFlight, k)
    /\ UNCHANGED <<viewVersion, salaryEntries, isLoading, selectedYear,
                   selectedCompany, sortConfig, isImporting, importStatus,
                   nextId, taxVars, xmlVars, tabVars>>

AppInit ==
    /\ version \in Versions
    /\ viewVersion \in ViewVersions
    /\ TaxConstructed
    /\ AppConstructed
    /\ XmlConstructed

AppNext ==
    \/ \E k \in DOMAIN inFlight : \E entries \in StoredLists :
          GetEntriesResolved(k, entries)
    \/ \E k \in DOMAIN inFlight : GetEntriesRejected(k)
    \/ \E i \in DOMAIN Years(salaryEntries) :
          SetSelectedYear(Years(salaryEntries)[i])
    \/ \E company \in {All} \cup
          CompanyNames(YearFilteredEntries(salaryEntries, selectedYear)) :
          SetSelectedCompany(company)
    \/ \E key \in SortableKeys : RequestSort(key)
    \/ HandleExport
    \/ \E f \in ImportableFiles : HandleFileSelect(f)
    \/ \E k \in DOMAIN inFlight : FileRead(k)
    \/ \E k \in DOMAIN inFlight : ImportEntriesResolved(k)
    \/ \E k \in DOMAIN inFlight : ImportEntriesRejected(k)

AppSpec == AppInit /\ [][AppNext]_vars

----------------------------------------------------------------------------
(* The application as a whole: the tabs, the form of the "add" tab, the    *)
(* confirmation dialog and the requests that save and delete entries.      *)
(* components/ConfirmDialog.tsx is not among the sources; App.tsx gives it *)
(* isOpen, onConfirm and onCancel, and nothing in App.tsx disables the     *)
(* page while the dialog is open.                                          *)

MaxRequests == 2

\* the save, delete and import requests the user has made so far, the files
\* still being read included
Requests ==
    Len(saveCalls) + Len(deleteCalls) + Len(importCalls)
        + Cardinality({k \in DOMAIN inFlight : inFlight[k].op = "readAsText"})

\* useState of the history view when it is mounted on entries
MountView(entries) ==
    /\ selectedYear' = InitialSelectedYear(entries)
    /\ selectedCompany' = All
    /\ sortConfig' = InitialSortConfig
    /\ isImporting' = FALSE
    /\ importStatus' = NoImportStatus

\* the history view is not rendered: its state is gone
UnmountView ==
    /\ selectedYear' = <<>>
    /\ selectedCompany' = All
    /\ sortConfig' = InitialSortConfig
    /\ isImporting' = FALSE
    /\ importStatus' = NoImportStatus

\* the requests once the view that started the file reads is unmounted
Orphaned(requests) ==
    [k \in DOMAIN requests |->
        IF requests[k].op = "readAsText"
        THEN [requests[k] EXCEPT !.mounted = FALSE]
        ELSE requests[k]]

\* the rows of the table of the history view
ShownEntries ==
    IF viewVersion = "filter"
    THEN DisplayedEntries(YearFilteredEntries(salaryEntries, selectedYear),
                          selectedCompany, sortConfig)
    ELSE YearFilteredEntries(salaryEntries, selectedYear)

\* TabButton.onClick
SelectTab(tabName) ==
    /\ ~isLoading
    /\ activeTab' = tabName
    /\ editingEntry' = IF tabName = "history" THEN <<>> ELSE editingEntry
    /\ IF tabName = activeTab
       THEN UNCHANGED <<selectedYear, selectedCompany, sortConfig,
                        isImporting, importStatus, inFlight>>
       ELSE IF tabName = "history"
       THEN MountView(salaryEntries) /\ UNCHANGED inFlight
       ELSE UnmountView /\ inFlight' = Orphaned(inFlight)
    /\ UNCHANGED <<viewVersion, salaryEntries, isLoading, error, nextId,
                   importCalls, confirmationState, saveCalls, deleteCalls,
                   taxVars, xmlVars>>

\* handleStartEdit, from the edit button of a row
HandleStartEdit(entry) ==
    /\ ~isLoading
    /\ activeTab = "history"
    /\ Includes(ShownEntries, entry)
    /\ editingEntry' = <<entry>>
    /\ activeTab' = "add"
    /\ UnmountView
    /\ inFlight' = Orphaned(inFlight)
    /\ UNCHANGED <<viewVersion, salaryEntries, isLoading, error, nextId,
                   importCalls, confirmationState, saveCalls, deleteCalls,
                   taxVars, xmlVars>>

\* handleCancelEdit, from the cancel button the form shows while editing
HandleCancelEdit ==
    /\ ~isLoading
    /\ activeTab = "add"
    /\ editingEntry # <<>>
    /\ editingEntry' = <<>>
    /\ activeTab' = "history"
    /\ MountView(salaryEntries)
    /\ UNCHANGED <<viewVersion, salaryEntries, isLoading, error, inFlight,
                   nextId, importCalls, confirmationState, saveCalls,
                   deleteCalls, taxVars, xmlVars>>

\* the entry the form submits: Omit<SalaryEntry, 'id'>
EntryData(date, companyName, gross, net, tax) ==
    [date           |-> date,
     companyName    |-> companyName,
     grossSalary    |-> Kr(gross),
     netSalary      |-> Kr(net),
     taxWithheld    |-> Kr(tax),
     sourceFileName |-> undefined]

\* { ...editingEntry, ...entryData }
Merged(entry, entryData) ==
    [id             |-> entry.id,
     date           |-> entryData.date,
     companyName    |-> entryData.companyName,
     grossSalary    |-> entryData.grossSalary,
     netSalary      |-> entryData.netSalary,
     taxWithheld    |-> entryData.taxWithheld,
     sourceFileName |-> entryData.sourceFileName]

\* handleSubmit of the form and handleSaveEntry up to its await: the request
\* is sent; the handler is the one of this render, which reads the
\* salaryEntries and the editingEntry of this render
HandleSaveEntry(entryData) ==
    /\ ~isLoading
    /\ activeTab = "add"
    /\ Requests < MaxRequests
    /\ inFlight' =
         Append(inFlight,
                IF editingEntry # <<>>
                THEN [op |-> "updateEntry",
                      entry |-> Merged(editingEntry[1], entryData),
                      salaryEntries |-> salaryEntries,
                      call |-> Len(saveCalls) + 1]
                ELSE [op |-> "addEntry", entry |-> entryData,
                      call |-> Len(saveCalls) + 1])
    /\ saveCalls' = Append(saveCalls,
                           [editing |-> editingEntry, settled |-> <<>>])
    /\ UNCHANGED <<viewVersion, salaryEntries, isLoading, error, selectedYear,
                   selectedCompany, sortConfig, isImporting, importStatus,
                   nextId, importCalls, activeTab, editingEntry,
                   confirmationState, deleteCalls, taxVars, xmlVars>>

\* salaryEntries.map(e => e.id === updatedEntry.id ? updatedEntry : e)
UpdatedEntries(entries, updatedEntry) ==
    [i \in DOMAIN entries |->
        IF entries[i].id = updatedEntry.id THEN updatedEntry ELSE entries[i]]

\* what handleSaveEntry does after a save has succeeded: the form is left
\* for the history tab
SaveSucceeded(k, entries) ==
    /\ salaryEntries' = entries
    /\ editingEntry' = <<>>
    /\ activeTab' = "history"
    /\ error' = null
    /\ inFlight' = Without(inFlight, k)
    /\ saveCalls' = [saveCalls EXCEPT
                        ![inFlight[k].call].settled = <<"fulfilled">>]
    /\ IF activeTab = "history"
       THEN /\ ViewEffect(entries, selectedYear)
            /\ UNCHANGED <<sortConfig, isImporting, importStatus>>
       ELSE MountView(entries)

\* handleSaveEntry after its await, api.updateEntry having answered with the
\* entry sent: the list read when the form was submitted is mapped
UpdateEntryResolved(k) ==
    /\ k \in DOMAIN inFlight
    /\ inFlight[k].op = "updateEntry"
    /\ SaveSucceeded(k, SortNewestFirst(
                            UpdatedEntries(inFlight[k].salaryEntries,
                                           inFlight[k].entry)))
    /\ UNCHANGED <<viewVersion, isLoading, nextId, importCalls,
                   confirmationState, deleteCalls, taxVars, xmlVars>>

\* handleSaveEntry after its await, api.addEntry having answered with the
\* entry and its id
AddEntryResolved(k) ==
    /\ k \in DOMAIN inFlight
    /\ inFlight[k].op = "addEntry"
    /\ SaveSucceeded(k, SortNewestFirst(
                            salaryEntries
                                \o AddedEntries(<<inFlight[k].entry>>, nextId)))
    /\ nextId' = nextId + 1
    /\ UNCHANGED <<viewVersion, isLoading, importCalls, confirmationState,
                   deleteCalls, taxVars, xmlVars>>

\* a catch block that also ends the editing
SaveRejected_EndsEditing(k) ==
    /\ k \in DOMAIN inFlight
    /\ inFlight[k].op \in {"updateEntry", "addEntry"}
    /\ error' = "HTTP error"
    /\ editingEntry' = <<>>
    /\ inFlight' = Without(inFlight, k)
    /\ saveCalls' = [saveCalls EXCEPT
                        ![inFlight[k].call].settled = <<"rejected">>]
    /\ UNCHANGED <<viewVersion, salaryEntries, isLoading, selectedYear,
                   selectedCompany, sortConfig, isImporting, importStatus,
                   nextId, importCalls, activeTab, confirmationState,
                   deleteCalls, taxVars, xmlVars>>

\* handleSaveEntry after its await, the request having failed
SaveRejected(k) ==
    /\ k \in DOMAIN inFlight
    /\ inFlight[k].op \in {"updateEntry", "addEntry"}
    /\ error' = "HTTP error"
    /\ inFlight' = Without(inFlight, k)
    /\ saveCalls' = [saveCalls EXCEPT
                        ![inFlight[k].call].settled = <<"rejected">>]
    /\ UNCHANGED <<viewVersion, salaryEntries, isLoading, selectedYear,
                   selectedCompany, sortConfig, isImporting, importStatus,
                   nextId, importCalls, activeTab, editingEntry,
                   confirmationState, deleteCalls, taxVars, xmlVars>>

\* handleDeleteEntry, from the delete button of a row: the dialog is opened
HandleDeleteEntry(idToDelete) ==
    /\ ~isLoading
    /\ activeTab = "history"
    /\ \E i \in DOMAIN ShownEntries : ShownEntries[i].id = idToDelete
    /\ confirmationState' =
         [isOpen |-> TRUE, message |-> "delete this entry",
          onConfirm |-> <<[op |-> "deleteEntry", idToDelete |-> idToDelete]>>]
    /\ UNCHANGED <<appVars, activeTab, editingEntry, saveCalls, deleteCalls,
                   taxVars, xmlVars>>

\* handleDeleteAllEntries, from the button of the "import" version
HandleDeleteAllEntries ==
    /\ ~isLoading
    /\ activeTab = "history"
    /\ viewVersion = "import"
    /\ Len(salaryEntries) > 0
    /\ ~isImporting
    /\ confirmationState' =
         [isOpen |-> TRUE, message |-> "delete ALL entries",
          onConfirm |-> <<[op |-> "deleteAllEntries"]>>]
    /\ UNCHANGED <<appVars, activeTab, editingEntry, saveCalls, deleteCalls,
                   taxVars, xmlVars>>

\* handleConfirm up to its await: the onConfirm of the dialog sends its
\* request; the dialog stays open until the request is answered
HandleConfirm ==
    /\ confirmationState.isOpen
    /\ Requests < MaxRequests
    /\ IF confirmationState.onConfirm # <<>>
       THEN /\ inFlight' =
                 Append(inFlight,
                        [request |-> confirmationState.onConfirm[1],
                         op |-> confirmationState.onConfirm[1].op,
                         call |-> Len(deleteCalls) + 1])
            /\ deleteCalls' =
                 Append(deleteCalls,
                        [onConfirm |-> confirmationState.onConfirm[1],
                         settled |-> <<>>])
            /\ UNCHANGED confirmationState
       ELSE /\ confirmationState' = ClosedConfirmation
            /\ UNCHANGED <<inFlight, deleteCalls>>
    /\ UNCHANGED <<viewVersion, salaryEntries, isLoading, error, selectedYear,
                   selectedCompany, sortConfig, isImporting, importStatus,
                   nextId, importCalls, activeTab, editingEntry, saveCalls,
                   taxVars, xmlVars>>

\* handleCancelConfirmation
HandleCancelConfirmation ==
    /\ confirmationState.isOpen
    /\ confirmationState' = ClosedConfirmation
    /\ UNCHANGED <<appVars, activeTab, editingEntry, saveCalls, deleteCalls,
                   taxVars, xmlVars>>

\* prevEntries.filter(entry => entry.id !== idToDelete)
WithoutEntry(entries, idToDelete) ==
    Filter(entries, {i \in DOMAIN entries : entries[i].id # idToDelete})

\* the onConfirm of a deletion after its await, the request having
\* succeeded, and handleConfirm after its own await: the dialog is closed
DeleteResolved(k) ==
    /\ k \in DOMAIN inFlight
    /\ inFlight[k].op \in {"deleteEntry", "deleteAllEntries"}
    /\ salaryEntries' =
         IF inFlight[k].op = "deleteEntry"
         THEN WithoutEntry(salaryEntries, inFlight[k].request.idToDelete)
         ELSE <<>>
    /\ error' = null
    /\ confirmationState' = ClosedConfirmation
    /\ inFlight' = Without(inFlight, k)
    /\ deleteCalls' = [deleteCalls EXCEPT
                          ![inFlight[k].call].settled = <<"fulfilled">>]
    /\ ViewEffect(salaryEntries', selectedYear)
    /\ UNCHANGED <<viewVersion, isLoading, sortConfig, isImporting,
                   importStatus, nextId, importCalls, activeTab, editingEntry,
                   saveCalls, taxVars, xmlVars>>

\* the same, the request having failed
DeleteRejected(k) ==
    /\ k \in DOMAIN inFlight
    /\ inFlight[k].op \in {"deleteEntry", "deleteAllEntries"}
    /\ error' = "HTTP error"
    /\ confirmationState' = ClosedConfirmation
    /\ inFlight' = Without(inFlight, k)
    /\ deleteCalls' = [deleteCalls EXCEPT
                          ![inFlight[k].call].settled = <<"rejected">>]
    /\ UNCHANGED <<viewVersion, salaryEntries, isLoading, selectedYear,
                   selectedCompany, sortConfig, isImporting, importStatus,
                   nextId, importCalls, activeTab, editingEntry, saveCalls,
                   taxVars, xmlVars>>

\* what the server holds when the application starts
LoadedLists == {<<>>, Filter(Stored, {1, 2})}

\* what the user may submit in the form: a payslip of a new year
FormEntries ==
    { EntryData(DateText(2025, 1, 15), <<"B">>, 300000, 220000, 80000) }

\* the backup the user may import
BackupFiles ==
    { ExportEntriesToXml(
          <<Payslip(1, DateText(2025, 1, 15), <<"B">>, 300000, 220000, 80000)>>) }

JournalInit ==
    /\ version = "multi"
    /\ viewVersion \in ViewVersions
    /\ TaxConstructed
    /\ AppConstructed
    /\ XmlConstructed

JournalNext ==
    \/ \E k \in DOMAIN inFlight : \E entries \in LoadedLists :
          GetEntriesResolved(k, entries)
    \/ \E k \in DOMAIN inFlight : GetEntriesRejected(k)
    \/ \E i \in DOMAIN Years(salaryEntries) :
          SetSelectedYear(Years(salaryEntries)[i])
    \/ HandleExport
    \/ Requests < MaxRequests /\ \E f \in BackupFiles : HandleFileSelect(f)
    \/ \E k \in DOMAIN inFlight : FileRead(k)
    \/ \E k \in DOMAIN inFlight : ImportEntriesResolved(k)
    \/ \E k \in DOMAIN inFlight : ImportEntriesRejected(k)
    \/ \E tabName \in {"add", "history"} : SelectTab(tabName)
    \/ \E i \in DOMAIN salaryEntries : HandleStartEdit(salaryEntries[i])
    \/ HandleCancelEdit
    \/ \E entryData \in FormEntries : HandleSaveEntry(entryData)
    \/ \E k \in DOMAIN inFlight : UpdateEntryResolved(k)
    \/ \E k \in DOMAIN inFlight : AddEntryResolved(k)
    \/ \E k \in DOMAIN inFlight : SaveRejected(k)
    \/ \E i \in DOMAIN salaryEntries : HandleDeleteEntry(salaryEntries[i].id)
    \/ HandleDeleteAllEntries
    \/ HandleConfirm
    \/ HandleCancelConfirmation
    \/ \E k \in DOMAIN inFlight : DeleteResolved(k)
    \/ \E k \in DOMAIN inFlight : DeleteRejected(k)

JournalSpec == JournalInit /\ [][JournalNext]_vars

----------------------------------------------------------------------------
(* The schedule as the specification states it, for the properties below *)

Table(v) == IF v = "multi" THEN PROGRESSIVE_TAX_BRACKETS ELSE FLAT_BRACKETS

LowerBound(table, i) == IF i = 1 THEN 0 ELSE table[i - 1].limit

\* max(0, min(g, upperBound_i) - upperBound_{i-1})
Slice(table, i, g) ==
    LET d == (IF g < table[i].limit THEN g ELSE table[i].limit)
                 - LowerBound(table, i)
    IN  IF d > 0 THEN d ELSE 0

\* rate_i * max(0, min(g, upperBound_i) - upperBound_{i-1})
Contribution(table, i, g) == Times(Kr(Slice(table, i, g)), table[i].rate)

RECURSIVE BracketSumUpTo(_, _, _)
BracketSumUpTo(table, n, g) ==
    IF n = 0 THEN Zero
    ELSE Add(BracketSumUpTo(table, n - 1, g), Contribution(table, n, g))

BracketSum(table, g) == BracketSumUpTo(table, Len(table), g)

\* the brackets 1..i taken in full
FullBrackets(table, i) == BracketSumUpTo(table, i, table[i].limit)

\* 7.9% of g plus 22% of what is left of g after the standard deduction
\* (46% of g, at most 104450) and the personal allowance (88250)
CombinedBase(g) ==
    LET deduction == MathMin(Times(Kr(g), 460), Kr(104450))
        left      == Sub(Sub(Kr(g), deduction), Kr(88250))
    IN  Add(Times(Kr(g), 79), Times(MathMax(Zero, left), 220))

Half == [kr |-> 0, tt |-> 5000]

\* n is an integer nearest to x
Nearest(n, x) ==
    /\ IsInteger(n)
    /\ Leq(Sub(n, x), Half)
    /\ Leq(Sub(x, n), Half)

Taxes(breakdown) == [k \in DOMAIN breakdown |-> breakdown[k].tax]

----------------------------------------------------------------------------
(* Properties *)

\* C1: for every income g <= 0 either implementation returns totalTax = 0,
\* every numeric field of details 0 and an empty progressiveTaxBreakdown.
C1_ZeroFloor ==
    \A i \in DOMAIN calls :
        calls[i].g <= 0 =>
            /\ calls[i].res.totalTax = [kr |-> 0, tt |-> 0]
            /\ \A f \in {"projectedGross", "socialSecurityContribution",
                         "generalTaxableIncome", "generalTax", "progressiveTax"} :
                   calls[i].res.details[f] = [kr |-> 0, tt |-> 0]
            /\ calls[i].res.details.progressiveTaxBreakdown = <<>>

C1_Witness ==
    /\ Len(calls) = 2
    /\ calls[1].g = 0
    /\ calls[2].g < 0

\* C2 as stated: for every income g > 0, totalTax is the sum over the brackets
\* of the implementation's own table of rate_i * max(0, min(g, upperBound_i) -
\* upperBound_{i-1}), rounded to the nearest integer, in both implementations.
C2_TotalIsBracketSum ==
    \A i \in DOMAIN calls :
        calls[i].g > 0 =>
            Nearest(calls[i].res.totalTax, BracketSum(Table(version), calls[i].g))

\* C2 amended: in the flat formulation totalTax is the rounded bracket sum; in
\* the multi-component formulation the rounded bracket sum is
\* details.progressiveTax, and totalTax is the rounding of the bracket sum plus
\* the combined base (social security and general tax).
C2_Amended ==
    \A i \in DOMAIN calls :
        LET g   == calls[i].g
            res == calls[i].res
        IN  g > 0 =>
              IF version = "flat"
              THEN Nearest(res.totalTax, BracketSum(FLAT_BRACKETS, g))
              ELSE /\ Nearest(res.details.progressiveTax,
                              BracketSum(PROGRESSIVE_TAX_BRACKETS, g))
                   /\ Nearest(res.totalTax,
                              Add(CombinedBase(g),
                                  BracketSum(PROGRESSIVE_TAX_BRACKETS, g)))

C2_Witness ==
    /\ version = "multi"
    /\ calls # <<>>
    /\ calls[1].g > 292850
    /\ Len(calls[1].res.details.progressiveTaxBreakdown) >= 2
    /\ calls[1].res.totalTax # calls[1].res.details.progressiveTax

\* C3: totalTax never decreases when the income grows: for two calls with
\* 0 <= g1 <= g2 the totalTax of g1 is at most the totalTax of g2.
C3_Monotone ==
    Len(calls) = 2 /\ 0 <= calls[2].g /\ calls[2].g <= calls[1].g
        => Leq(calls[2].res.totalTax, calls[1].res.totalTax)

C3_Witness ==
    /\ Len(calls) = 2
    /\ calls[2].g > 0
    /\ calls[1].g = calls[2].g + 1
    /\ \E t \in Thresholds : calls[2].g = t
    /\ Less(calls[2].res.totalTax, calls[1].res.totalTax)

C5_BreakdownSumsToTotal ==
    \A i \in DOMAIN calls :
        LET d   == calls[i].res.details
            sum == Add(Add(d.socialSecurityContribution, d.generalTax),
                       d.progressiveTax)
        IN  /\ Leq(Sub(sum, calls[i].res.totalTax), Kr(1))
            /\ Leq(Sub(calls[i].res.totalTax, sum), Kr(1))

\* C6: for every income g > 0, progressiveTaxBreakdown has exactly one entry,
\* labelled with the bracket and its rate, for every bracket whose contribution
\* at g is non-zero, and none for a bracket whose contribution is zero, in both
\* implementations.
C6_EntryPerBracket ==
    \A c \in DOMAIN calls :
      \A i \in DOMAIN Table(version) :
        LET g  == calls[c].g
            bd == calls[c].res.details.progressiveTaxBreakdown
            n  == Cardinality({k \in DOMAIN bd :
                      bd[k].bracket =
                          <<"Krok", i - 1, ToFixed1(Table(version)[i].rate)>>})
        IN  g > 0 =>
              IF Contribution(Table(version), i, g) # Zero THEN n = 1 ELSE n = 0

\* the unrounded components of the tax of a call: the combined base and the
\* breakdown entries (multi-component), the bracket slices (flat)
ExactSum(c) ==
    IF version = "flat"
    THEN BracketSum(FLAT_BRACKETS, calls[c].g)
    ELSE Add(CombinedBase(calls[c].g),
             SumAmounts(Taxes(calls[c].res.details.progressiveTaxBreakdown)))

RoundedSum(c) ==
    LET d == calls[c].res.details
    IN  Add(Add(d.socialSecurityContribution, d.generalTax), d.progressiveTax)

\* C7: for every income totalTax is an integer, the exact sum of the unrounded
\* tax components rounded once to the nearest integer.
C7_RoundedOnce ==
    \A c \in DOMAIN calls :
        /\ IsInteger(calls[c].res.totalTax)
        /\ calls[c].g > 0 => Nearest(calls[c].res.totalTax, ExactSum(c))

\* a call where rounding the components first would give another total
C7_Witness ==
    /\ version = "multi"
    /\ calls # <<>>
    /\ calls[1].g > 0
    /\ RoundedSum(1) # calls[1].res.totalTax

\* C8: every monetary amount of the breakdown is an integer: the social
\* security contribution, the general taxable income, the general tax, the
\* progressive tax and the tax of every progressiveTaxBreakdown entry.
C8_BreakdownIntegers ==
    \A c \in DOMAIN calls :
        LET d == calls[c].res.details
        IN  /\ IsInteger(d.socialSecurityContribution)
            /\ IsInteger(d.generalTaxableIncome)
            /\ IsInteger(d.generalTax)
            /\ IsInteger(d.progressiveTax)
            /\ \A k \in DOMAIN d.progressiveTaxBreakdown :
                   IsInteger(d.progressiveTaxBreakdown[k].tax)

\* C9: under the multi-component schedule estimate(500000) is the closed form:
\* progressive part (292850-208050)*0.017 + (500000-292850)*0.040 = 9727.6,
\* shown as 9728, and totalTax = round(39500 + 67606 + 9727.6) = 116834.
C9_Example500000 ==
    \A c \in DOMAIN calls :
        LET res  == calls[c].res
            prog == Add(Times(Kr(292850 - 208050), 17),
                        Times(Kr(500000 - 292850), 40))
        IN  version = "multi" /\ calls[c].g = 500000 =>
              /\ prog = [kr |-> 9727, tt |-> 6000]
              /\ SumAmounts(Taxes(res.details.progressiveTaxBreakdown)) = prog
              /\ res.details.progressiveTax = Kr(9728)
              /\ res.details.socialSecurityContribution = Kr(39500)
              /\ res.details.generalTax = Kr(67606)
              /\ res.totalTax = Kr(116834)

C9_Witness ==
    /\ version = "multi"
    /\ calls # <<>>
    /\ calls[1].g = 500000

\* the brackets of a table that hold the income g
BracketsOf(table, g) ==
    {i \in DOMAIN table : LowerBound(table, i) < g /\ g <= table[i].limit}

\* C10: in both implementations the bracket table is strictly ordered and
\* non-overlapping: the upper bounds increase strictly from above 0, the last
\* bracket is unbounded, and every income g > 0 is in exactly one bracket, the
\* one the code taxes it in last.
C10_OrderedBrackets ==
    /\ \A v \in Versions :
          LET table == Table(v)
          IN  /\ 0 < table[1].limit
              /\ \A i \in 1..(Len(table) - 1) : table[i].limit < table[i + 1].limit
              /\ table[Len(table)].limit = Infinity
              /\ \A g \in Incomes : g < Infinity
    /\ \A c \in DOMAIN calls :
          LET g  == calls[c].g
              bd == calls[c].res.details.progressiveTaxBreakdown
          IN  g > 0 =>
                /\ Cardinality(BracketsOf(Table(version), g)) = 1
                /\ version = "flat" =>
                       BracketsOf(FLAT_BRACKETS, g) = {FlatBranchOf(g)}
                /\ version = "multi" /\ bd # <<>> =>
                       BracketsOf(PROGRESSIVE_TAX_BRACKETS, g)
                           = {bd[Len(bd)].bracket[2] + 1}

C10_Witness ==
    /\ version = "flat"
    /\ Len(calls) = 2
    /\ calls[1].g = 198349
    /\ calls[2].g = 1500000

\* the tax of an income before Math.round
UnroundedTax(v, g) ==
    IF g <= 0 THEN Zero
    ELSE IF v = "flat" THEN FlatTotal(g)
    ELSE Add(CombinedBase(g), BracketSum(PROGRESSIVE_TAX_BRACKETS, g))

\* the tax added by one more krone of income at g
MarginalTax(v, g) == Sub(UnroundedTax(v, g + 1), UnroundedTax(v, g))

\* the rate of the bracket that one more krone of income at g falls in
RateAt(v, g) ==
    Table(v)[CHOOSE i \in BracketsOf(Table(v), g + 1) : TRUE].rate

\* C11: the schedule is progressive: for two incomes 0 <= g1 <= g2 the bracket
\* rate at g2 is at least the bracket rate at g1, and one more krone at g2 adds
\* at least as much tax as one more krone at g1, in both implementations.
C11_Progressive ==
    Len(calls) = 2 /\ 0 <= calls[2].g /\ calls[2].g <= calls[1].g =>
        /\ RateAt(version, calls[2].g) <= RateAt(version, calls[1].g)
        /\ Leq(MarginalTax(version, calls[2].g), MarginalTax(version, calls[1].g))

IsAmount(a) ==
    /\ DOMAIN a = {"kr", "tt"}
    /\ a.kr \in Int
    /\ a.tt \in 0..9999

\* r has the shape of a TaxCalculationResult
IsTaxCalculationResult(r) ==
    /\ DOMAIN r = {"totalTax", "details"}
    /\ IsAmount(r.totalTax)
    /\ DOMAIN r.details =
           {"projectedGross", "socialSecurityContribution",
            "generalTaxableIncome", "generalTax", "progressiveTax",
            "progressiveTaxBreakdown"}
    /\ \A f \in DOMAIN r.details \ {"progressiveTaxBreakdown"} :
           IsAmount(r.details[f])
    /\ LET bd == r.details.progressiveTaxBreakdown
       IN  /\ DOMAIN bd = 1..Len(bd)
           /\ \A k \in DOMAIN bd :
                  /\ DOMAIN bd[k] = {"bracket", "tax"}
                  /\ IsAmount(bd[k].tax)

\* C13: for every finite income, positive, zero or negative, the call
\* completes and returns a TaxCalculationResult, never an error.
C13_AlwaysReturns ==
    \A c \in DOMAIN calls : IsTaxCalculationResult(calls[c].res)

C13_Witness ==
    /\ Len(calls) = 2
    /\ calls[1].g < 0
    /\ calls[2].g > 1499999

ThisVersion(v, g) ==
    IF v = "multi" THEN CalculateNorwegianTaxMulti(g)
                   ELSE CalculateNorwegianTaxFlat(g)

OtherVersion(v, g) ==
    IF v = "multi" THEN CalculateNorwegianTaxFlat(g)
                   ELSE CalculateNorwegianTaxMulti(g)

\* C14: the two implementations are not interchangeable: for some income
\* g > 0 they return different totalTax values.
C14_NotInterchangeable ==
    \E g \in Incomes :
        /\ g > 0
        /\ ThisVersion(version, g).totalTax # OtherVersion(version, g).totalTax

\* a call whose totalTax the other implementation would not have returned
C14_Witness ==
    /\ calls # <<>>
    /\ calls[1].g > 0
    /\ calls[1].res.totalTax # OtherVersion(version, calls[1].g).totalTax

----------------------------------------------------------------------------
(* The tax comparison of the history view *)

\* the sum of a field over the entries of a list dated in a year
RECURSIVE SumOfYear(_, _, _)
SumOfYear(entries, year, field) ==
    IF entries = <<>> THEN Zero
    ELSE Add(IF GetFullYear(Head(entries).date) = year
             THEN Head(entries)[field] ELSE Zero,
             SumOfYear(Tail(entries), year, field))

\* the taxCalculation of the view in the current state
ShownTaxCalculation ==
    TaxCalculation(version,
                   YearTotals(salaryEntries, selectedYear, selectedCompany,
                              sortConfig, viewVersion))

\* C15: whenever the history view shows a tax calculation, the gross income
\* passed to calculateNorwegianTax is the sum of grossSalary over all the
\* recorded entries of the selected year, whatever the company filter and the
\* sorting.  Violated by the "filter" version, whose totals are those of the
\* displayed entries: with the payslips of 2024 of two employers (200000 at
\* A, 250000 at B) and the filter set to A the estimator is given 200000,
\* not 450000.
C15_GrossOfSelectedYear ==
    ShownTaxCalculation # <<>> =>
        ShownTaxCalculation[1].currentGross =
            SumOfYear(salaryEntries, selectedYear[1], "grossSalary")

\* C16: in components/SalaryHistory.tsx the comparison is
\* difference = (sum of taxWithheld of the selected year's entries)
\*              - calculateNorwegianTax(sum of their grossSalary).totalTax,
\* labelled an overpayment exactly when difference >= 0 and an underpayment
\* otherwise, and there is no comparison exactly when the gross sum is 0.
C16_Comparison ==
    viewVersion = "import" =>
        LET gross == IF selectedYear = <<>> THEN Zero
                     ELSE SumOfYear(salaryEntries, selectedYear[1],
                                    "grossSalary")
            paid  == IF selectedYear = <<>> THEN Zero
                     ELSE SumOfYear(salaryEntries, selectedYear[1],
                                    "taxWithheld")
            due   == IF version = "multi"
                     THEN CalculateNorwegianTaxMulti(gross.kr).totalTax
                     ELSE CalculateNorwegianTaxFlat(gross.kr).totalTax
        IN  /\ (ShownTaxCalculation = <<>>) <=> (gross = Zero)
            /\ ShownTaxCalculation # <<>> =>
                  /\ ShownTaxCalculation[1].difference = Sub(paid, due)
                  /\ (ComparisonLabel(ShownTaxCalculation[1])
                         = "Biezaca nadplata podatku:") <=> ~Less(paid, due)
                  /\ (ComparisonLabel(ShownTaxCalculation[1])
                         = "Biezaca niedoplata podatku:") <=> Less(paid, due)

\* a comparison is shown in which the tax withheld equals the tax due
C16_Witness ==
    /\ viewVersion = "import"
    /\ ShownTaxCalculation # <<>>
    /\ ShownTaxCalculation[1].difference = Zero
    /\ ShownTaxCalculation[1].totalTaxDue # Zero

\* a comparison is shown in which less was withheld than is due
C16_WitnessUnderpayment ==
    /\ viewVersion = "import"
    /\ ShownTaxCalculation # <<>>
    /\ Less(ShownTaxCalculation[1].difference, Zero)

----------------------------------------------------------------------------
(* XML import and export *)

\* YYYY-MM-DD: four digits, a dash, two digits, a dash, two digits
IsDateFormat(text) ==
    /\ Len(text) = 10
    /\ \A i \in 1..10 : IF i \in {5, 8} THEN text[i] = "-"
                         ELSE IsDigit(text[i])

\* the text is a number from its first to its last character: an optional
\* minus sign, digits, and at most one point among or after them
IsNumeric(text) ==
    LET unsigned == IF text # <<>> /\ Head(text) = "-" THEN Tail(text)
                    ELSE text
    IN  /\ \E i \in DOMAIN unsigned : IsDigit(unsigned[i])
        /\ \A i \in DOMAIN unsigned : IsDigit(unsigned[i]) \/ unsigned[i] = "."
        /\ Cardinality({i \in DOMAIN unsigned : unsigned[i] = "."}) <= 1

\* the text of the first child element with the tag, trimmed; <<>> when the
\* <Entry> has no such child
FieldText(entryNode, tag) ==
    IF GetElementValue(entryNode, tag) = undefined THEN <<>>
    ELSE GetElementValue(entryNode, tag)

\* an <Entry> with the four required fields, a date in the format and
\* numeric amounts
IsValidEntry(entryNode) ==
    /\ \A tag \in {"Date", "GrossSalary", "NetSalary", "TaxWithheld"} :
          FieldText(entryNode, tag) # <<>>
    /\ IsDateFormat(FieldText(entryNode, "Date"))
    /\ \A tag \in {"GrossSalary", "NetSalary", "TaxWithheld"} :
          IsNumeric(FieldText(entryNode, tag))

\* C17: every record importEntriesFromXml resolves with has a date in the
\* format YYYY-MM-DD and amounts that are numbers, not NaN; an <Entry> that
\* lacks a required field, has a date in another format or has a non-numeric
\* amount never appears in the result, that is, the result has no more
\* records than the file has valid entries.  Violated by the file with the
\* single entry whose GrossSalary reads "50 000": parseFloat stops at the
\* space and the entry is imported with a gross salary of 50.
C17_OnlyValidEntries ==
    xmlSettled # <<>> /\ xmlSettled[1].status = "resolved" =>
        LET value == xmlSettled[1].value
            nodes == xmlFile[1].entries
        IN  /\ \A i \in DOMAIN value :
                  /\ IsDateFormat(value[i].date)
                  /\ value[i].grossSalary # NaN
                  /\ value[i].netSalary # NaN
                  /\ value[i].taxWithheld # NaN
            /\ Len(value) <=
                  Cardinality({i \in DOMAIN nodes : IsValidEntry(nodes[i])})

\* an entry without its id
WithoutId(entry) ==
    [date           |-> entry.date,
     companyName    |-> entry.companyName,
     grossSalary    |-> entry.grossSalary,
     netSalary      |-> entry.netSalary,
     taxWithheld    |-> entry.taxWithheld,
     sourceFileName |-> entry.sourceFileName]

\* C18: importing the file exportEntriesToXml wrote for a list of entries
\* resolves with one record per exported entry, oldest first, each with the
\* date, the amounts, the companyName and the sourceFileName of its entry and
\* without its id; absent optional fields stay absent and the special
\* characters of XML in names survive.  Violated by an entry whose
\* companyName is " A": getElementValue trims the text of every element, so
\* the record comes back with the companyName "A" (and a name of spaces only
\* comes back absent).
C18_RoundTrip ==
    exportedArray # <<>> /\ xmlSettled # <<>> =>
        /\ xmlSettled[1].status = "resolved"
        /\ Len(xmlSettled[1].value) = Len(exportedArray[1])
        /\ \A i \in DOMAIN exportedArray[1] :
              xmlSettled[1].value[i] = WithoutId(exportedArray[1][i])
        /\ \A i \in DOMAIN exportedArray[1] : \A j \in DOMAIN exportedArray[1] :
              i < j => GetTime(xmlSettled[1].value[i].date)
                          <= GetTime(xmlSettled[1].value[j].date)

----------------------------------------------------------------------------
(* The import of entries into the application *)

Dates(entries) == {entries[i].date : i \in DOMAIN entries}

Ids(entries) == {entries[i].id : i \in DOMAIN entries}

\* the call of handleImportEntries that settles in this step, as a sequence
\* of at most one index of importCalls
SettlingCall ==
    IF \E c \in DOMAIN importCalls' :
            /\ importCalls'[c].settled # <<>>
            /\ c \in DOMAIN importCalls => importCalls[c].settled = <<>>
    THEN <<CHOOSE c \in DOMAIN importCalls' :
            /\ importCalls'[c].settled # <<>>
            /\ c \in DOMAIN importCalls => importCalls[c].settled = <<>>>>
    ELSE <<>>

C19_WitnessNothingNew ==
    \E c \in DOMAIN importCalls :
        /\ importCalls[c].settled = <<[status |-> "fulfilled", value |-> 0]>>
        /\ importCalls[c].imported # <<>>

\* C20: when the server import fails inside handleImportEntries, the error
\* reaches handleFileSelect: in the state after the failure the import status
\* of the view holds the error message, its successCount is null and
\* isImporting is false.  Violated: handleFileSelect does not await onImport,
\* so it has stored the pending promise as successCount and finished before
\* the request fails; the rejection is caught by nobody and the status keeps
\* error = '' and a successCount that is not null.
C20_FailureReachesView ==
    [][SettlingCall # <<>>
         /\ importCalls'[SettlingCall[1]].settled[1].status = "rejected" =>
       /\ importStatus'.error # ""
       /\ importStatus'.successCount = <<>>
       /\ isImporting' = FALSE]_vars

----------------------------------------------------------------------------
(* The application as a whole: deletions, order, failures, confirmation *)

\* the ids whose deletion has been confirmed and carried out by the server
DeletedIds ==
    {deleteCalls[c].onConfirm.idToDelete : c \in
        {d \in DOMAIN deleteCalls :
            /\ deleteCalls[d].onConfirm.op = "deleteEntry"
            /\ deleteCalls[d].settled = <<"fulfilled">>}}

\* C21: once the deletion of an entry id has been confirmed and the server
\* has carried it out, salaryEntries never again holds an entry with that
\* id, whatever save, delete and import requests were in flight when the
\* deletion completed.  Violated: an edit submitted before the deletion
\* completes maps the list it read when the form was submitted, and puts
\* the deleted entry back when its own request is answered.
C21_DeletedStaysDeleted ==
    \A i \in DOMAIN salaryEntries : salaryEntries[i].id \notin DeletedIds

\* entries are ordered by date, newest first
NewestFirst(entries) ==
    \A i, j \in DOMAIN entries :
        i < j => GetTime(entries[i].date) >= GetTime(entries[j].date)

\* C22: in every state reached after the initial load, salaryEntries is
\* ordered by date, newest first.  Violated: exportEntriesToXml sorts the
\* array it is given, which is the array of the application state, oldest
\* first.
C22_NewestFirst == ~isLoading => NewestFirst(salaryEntries)

\* a call of handleSaveEntry fails in this step
SaveFails ==
    \E c \in DOMAIN saveCalls :
        saveCalls[c].settled = <<>> /\ saveCalls'[c].settled = <<"rejected">>

\* a confirmed deletion fails in this step
DeleteFails ==
    \E c \in DOMAIN deleteCalls :
        deleteCalls[c].settled = <<>>
            /\ deleteCalls'[c].settled = <<"rejected">>

\* a call of handleImportEntries fails in this step
ImportFails ==
    \E c \in DOMAIN importCalls :
        /\ importCalls[c].settled = <<>>
        /\ importCalls'[c].settled # <<>>
        /\ importCalls'[c].settled[1].status = "rejected"

\* C23: the step in which a request made by save, delete, delete-all or
\* import fails leaves salaryEntries as it is and sets error to a message;
\* when the request was a save, it also leaves editingEntry and activeTab
\* as they are.
C23_FailureKeepsEntries ==
    [][/\ SaveFails \/ DeleteFails \/ ImportFails =>
            salaryEntries' = salaryEntries /\ error' # null
       /\ SaveFails => editingEntry' = editingEntry /\ activeTab' = activeTab
      ]_vars

\* the save of an edited entry has failed and the form is still shown, with
\* the entry being edited
C23_Witness ==
    /\ \E c \in DOMAIN saveCalls :
            /\ saveCalls[c].settled = <<"rejected">>
            /\ saveCalls[c].editing = editingEntry
    /\ editingEntry # <<>>
    /\ activeTab = "add"
    /\ error = "HTTP error"
    /\ inFlight = <<>>

\* a deletion and an import have failed
C23_WitnessDeleteImport ==
    /\ \E c \in DOMAIN deleteCalls : deleteCalls[c].settled = <<"rejected">>
    /\ \E c \in DOMAIN importCalls :
            /\ importCalls[c].settled # <<>>
            /\ importCalls[c].settled[1].status = "rejected"
    /\ error = "HTTP error"
    /\ salaryEntries # <<>>

\* the ids for which a deletion has been confirmed in the dialog
ConfirmedIds ==
    {deleteCalls[c].onConfirm.idToDelete : c \in
        {d \in DOMAIN deleteCalls :
            deleteCalls[d].onConfirm.op = "deleteEntry"}}

\* the deletion of all entries has been confirmed in the dialog
ConfirmedAll ==
    \E c \in DOMAIN deleteCalls :
        deleteCalls[c].onConfirm.op = "deleteAllEntries"

\* C24: no entry leaves salaryEntries unless its deletion, or the deletion
\* of all entries, has been confirmed in the dialog; requesting a deletion
\* only opens the dialog; cancelling the dialog closes it and changes
\* neither salaryEntries nor the requests in flight.  Violated: the answer
\* to an edit sets the list read when the form was submitted, which drops
\* the entries added since.
C24_RemovedOnlyIfConfirmed ==
    [][\A id \in Ids(salaryEntries) \ Ids(salaryEntries') :
            id \in ConfirmedIds' \/ ConfirmedAll']_vars

\* the rest of C24, which holds: a request for a deletion only opens the
\* dialog, and a cancelled dialog is closed without request
C24_DialogOnly ==
    [][/\ (confirmationState'.isOpen /\ confirmationState' # confirmationState)
            => UNCHANGED <<salaryEntries, inFlight, deleteCalls>>
       /\ (confirmationState.isOpen /\ ~confirmationState'.isOpen
               /\ deleteCalls' = deleteCalls)
            => /\ confirmationState' = ClosedConfirmation
               /\ UNCHANGED <<salaryEntries, inFlight>>]_vars

----------------------------------------------------------------------------
(* importEntriesFromXml: when it rejects *)

\* C25: importEntriesFromXml rejects exactly when the file cannot be read,
\* the XML does not parse, the root element is not <SalaryEntries>, or the
\* document has at least one <Entry> and none of them is valid; otherwise
\* it resolves with the records of the valid entries in document order, and
\* with the empty list when there is no <Entry>.  Violated by the file with
\* the single entry whose GrossSalary reads "50 000": none of its entries
\* is valid, yet the promise resolves, with that entry and a gross salary
\* of 50.
C25_RejectsExactlyWhen ==
    xmlSettled # <<>> =>
        LET nodes == xmlFile[1].entries
            valid == {i \in DOMAIN nodes : IsValidEntry(nodes[i])}
            turns == [i \in DOMAIN nodes |-> ImportEntry(nodes[i])]
            rejects ==
                \/ ~xmlFile[1].readable
                \/ HasParserError(xmlFile[1])
                \/ xmlFile[1].root # "SalaryEntries"
                \/ (nodes # <<>> /\ valid = {})
        IN  IF rejects THEN xmlSettled[1].status = "rejected"
            ELSE /\ xmlSettled[1].status = "resolved"
                 /\ xmlSettled[1].value = Filter(turns, valid)

\* the same with an <Entry> counted as valid when its amounts begin with a
\* number, which is how the code reads them
C25_WithNumericPrefix ==
    xmlSettled # <<>> =>
        LET nodes == xmlFile[1].entries
            turns == [i \in DOMAIN nodes |-> ImportEntry(nodes[i])]
            valid ==
                {i \in DOMAIN nodes :
                    /\ \A tag \in {"Date", "GrossSalary", "NetSalary",
                                    "TaxWithheld"} :
                          FieldText(nodes[i], tag) # <<>>
                    /\ IsDateFormat(FieldText(nodes[i], "Date"))
                    /\ \A tag \in {"GrossSalary", "NetSalary", "TaxWithheld"} :
                          ParseFloat(FieldText(nodes[i], tag)) # NaN}
            rejects ==
                \/ ~xmlFile[1].readable
                \/ HasParserError(xmlFile[1])
                \/ xmlFile[1].root # "SalaryEntries"
                \/ (nodes # <<>> /\ valid = {})
        IN  IF rejects THEN xmlSettled[1].status = "rejected"
            ELSE /\ xmlSettled[1].status = "resolved"
                 /\ xmlSettled[1].value = Filter(turns, valid)

----------------------------------------------------------------------------
(* The selected year of the history view *)

\* the years that have at least one entry
YearsWithEntries ==
    {GetFullYear(salaryEntries[i].date) : i \in DOMAIN salaryEntries}

\* a greatest element of a non-empty set of years
MostRecent(years) == CHOOSE y \in years : \A z \in years : z <= y

\* while the history view is shown, selectedYear is null exactly when there
\* are no entries and is otherwise a year that has an entry
SelectedYearHasEntries ==
    activeTab = "history" =>
        /\ (selectedYear = <<>>) <=> (salaryEntries = <<>>)
        /\ selectedYear # <<>> => selectedYear[1] \in YearsWithEntries

\* the step takes the last entry of the selected year out of the list shown
\* and leaves entries of other years
LastEntryOfSelectedYearRemoved ==
    /\ activeTab = "history" /\ activeTab' = "history"
    /\ selectedYear # <<>>
    /\ selectedYear[1] \in YearsWithEntries
    /\ selectedYear[1] \notin YearsWithEntries'
    /\ YearsWithEntries' # {}

\* C26: once the effect of the history view has run, selectedYear is null
\* exactly when there are no entries and is otherwise one of the years that
\* have an entry; when a step removes the last entry of the selected year,
\* selectedYear becomes the most recent of the years that remain.
C26_SelectedYear ==
    /\ []SelectedYearHasEntries
    /\ [][LastEntryOfSelectedYearRemoved =>
             selectedYear' = <<MostRecent(YearsWithEntries')>>]_vars

\* the only payslip of 2024, the year selected, has been deleted and the
\* year 2023 is selected
C26_Witness ==
    /\ activeTab = "history"
    /\ deleteCalls = <<[onConfirm |-> [op |-> "deleteEntry", idToDelete |-> 1],
                        settled |-> <<"fulfilled">>]>>
    /\ saveCalls = <<>>
    /\ importCalls = <<>>
    /\ Len(salaryEntries) = 1
    /\ selectedYear = <<2023>>

\* the last entry of all has been deleted and no year is selected
C26_WitnessEmpty ==
    /\ activeTab = "history"
    /\ ~isLoading
    /\ \E c \in DOMAIN deleteCalls : deleteCalls[c].settled = <<"fulfilled">>
    /\ salaryEntries = <<>>
    /\ selectedYear = <<>>

====
